---- MODULE Spec2Model ----
(***************************************************************************)
(* dirsniff: classification of a directory by the names and types of its   *)
(* entries, and the depth-bounded traversal that builds the result tree.   *)
(* The model follows the version of dirsniff.ts that returns DirectoryInfo *)
(* trees (src/unnamed/part_001).                                           *)
(*                                                                         *)
(* A JavaScript string is modelled as a sequence of one-character strings, *)
(* so that name[0], includes('.'), extname, toLowerCase, the UUID regular  *)
(* expression and localeCompare are computed character by character.       *)
(* S("src") is the literal "src" in that representation.                   *)
(***************************************************************************)
EXTENDS Integers, Sequences, FiniteSets, TLC

\* ---------------------------------------------------------------- bounds

\* entries in one directory listing of the traversal specification
MaxEntries == 3
\* directories that exist below the root arguments, over the whole run
MaxFsDirs == 3

\* ---------------------------------------------------------------- strings

\* the literals of the program and of the inputs, character by character
StrTab ==
    ("src" :> << "s", "r", "c" >>) @@
    ("\r_-.0123456789abcdefghijklmnopqrstuvwxyz" :> << "\r", "_", "-", ".", "0", "1", "2", "3", "4", "5", "6", "7", "8", "9", "a", "b", "c", "d", "e", "f", "g", "h", "i", "j", "k", "l", "m", "n", "o", "p", "q", "r", "s", "t", "u", "v", "w", "x", "y", "z" >>) @@
    (".idea" :> << ".", "i", "d", "e", "a" >>) @@
    ("project.clj" :> << "p", "r", "o", "j", "e", "c", "t", ".", "c", "l", "j" >>) @@
    ("test" :> << "t", "e", "s", "t" >>) @@
    (".gitignore" :> << ".", "g", "i", "t", "i", "g", "n", "o", "r", "e" >>) @@
    (".editorconfig" :> << ".", "e", "d", "i", "t", "o", "r", "c", "o", "n", "f", "i", "g" >>) @@
    ("LICENSE" :> << "L", "I", "C", "E", "N", "S", "E" >>) @@
    ("README.md" :> << "R", "E", "A", "D", "M", "E", ".", "m", "d" >>) @@
    ("shard.yml" :> << "s", "h", "a", "r", "d", ".", "y", "m", "l" >>) @@
    ("spec" :> << "s", "p", "e", "c" >>) @@
    ("dub.json" :> << "d", "u", "b", ".", "j", "s", "o", "n" >>) @@
    ("dub.sdl" :> << "d", "u", "b", ".", "s", "d", "l" >>) @@
    ("pubspec.yaml" :> << "p", "u", "b", "s", "p", "e", "c", ".", "y", "a", "m", "l" >>) @@
    ("lib" :> << "l", "i", "b" >>) @@
    ("deno.json" :> << "d", "e", "n", "o", ".", "j", "s", "o", "n" >>) @@
    ("deno.jsonc" :> << "d", "e", "n", "o", ".", "j", "s", "o", "n", "c" >>) @@
    (".classpath" :> << ".", "c", "l", "a", "s", "s", "p", "a", "t", "h" >>) @@
    (".project" :> << ".", "p", "r", "o", "j", "e", "c", "t" >>) @@
    (".settings" :> << ".", "s", "e", "t", "t", "i", "n", "g", "s" >>) @@
    ("bin" :> << "b", "i", "n" >>) @@
    (".dart_tool" :> << ".", "d", "a", "r", "t", "_", "t", "o", "o", "l" >>) @@
    ("android" :> << "a", "n", "d", "r", "o", "i", "d" >>) @@
    ("ios" :> << "i", "o", "s" >>) @@
    (".metadata" :> << ".", "m", "e", "t", "a", "d", "a", "t", "a" >>) @@
    (".packages" :> << ".", "p", "a", "c", "k", "a", "g", "e", "s" >>) @@
    ("demo_app.iml" :> << "d", "e", "m", "o", "_", "a", "p", "p", ".", "i", "m", "l" >>) @@
    ("pubspec.lock" :> << "p", "u", "b", "s", "p", "e", "c", ".", "l", "o", "c", "k" >>) @@
    ("idata" :> << "i", "d", "a", "t", "a" >>) @@
    ("user" :> << "u", "s", "e", "r" >>) @@
    ("versioned" :> << "v", "e", "r", "s", "i", "o", "n", "e", "d" >>) @@
    ("project.prp" :> << "p", "r", "o", "j", "e", "c", "t", ".", "p", "r", "p" >>) @@
    ("projectState" :> << "p", "r", "o", "j", "e", "c", "t", "S", "t", "a", "t", "e" >>) @@
    ("HEAD" :> << "H", "E", "A", "D" >>) @@
    ("config" :> << "c", "o", "n", "f", "i", "g" >>) @@
    ("description" :> << "d", "e", "s", "c", "r", "i", "p", "t", "i", "o", "n" >>) @@
    ("hooks" :> << "h", "o", "o", "k", "s" >>) @@
    ("info" :> << "i", "n", "f", "o" >>) @@
    ("objects" :> << "o", "b", "j", "e", "c", "t", "s" >>) @@
    ("refs" :> << "r", "e", "f", "s" >>) @@
    ("go.mod" :> << "g", "o", ".", "m", "o", "d" >>) @@
    ("build.gradle" :> << "b", "u", "i", "l", "d", ".", "g", "r", "a", "d", "l", "e" >>) @@
    (".hhconfig" :> << ".", "h", "h", "c", "o", "n", "f", "i", "g" >>) @@
    ("Project.toml" :> << "P", "r", "o", "j", "e", "c", "t", ".", "t", "o", "m", "l" >>) @@
    ("Contents" :> << "C", "o", "n", "t", "e", "n", "t", "s" >>) @@
    ("Wrapper" :> << "W", "r", "a", "p", "p", "e", "r" >>) @@
    ("WrappedBundle" :> << "W", "r", "a", "p", "p", "e", "d", "B", "u", "n", "d", "l", "e" >>) @@
    ("tests" :> << "t", "e", "s", "t", "s" >>) @@
    (".nimble" :> << ".", "n", "i", "m", "b", "l", "e" >>) @@
    ("t" :> << "t" >>) @@
    ("Makefile.PL" :> << "M", "a", "k", "e", "f", "i", "l", "e", ".", "P", "L" >>) @@
    ("__init__.py" :> << "_", "_", "i", "n", "i", "t", "_", "_", ".", "p", "y" >>) @@
    ("info.rkt" :> << "i", "n", "f", "o", ".", "r", "k", "t" >>) @@
    ("index.js" :> << "i", "n", "d", "e", "x", ".", "j", "s" >>) @@
    ("App.js" :> << "A", "p", "p", ".", "j", "s" >>) @@
    ("snap" :> << "s", "n", "a", "p" >>) @@
    ("machine" :> << "m", "a", "c", "h", "i", "n", "e" >>) @@
    ("Cargo.lock" :> << "C", "a", "r", "g", "o", ".", "l", "o", "c", "k" >>) @@
    ("Cargo.toml" :> << "C", "a", "r", "g", "o", ".", "t", "o", "m", "l" >>) @@
    ("build.sbt" :> << "b", "u", "i", "l", "d", ".", "s", "b", "t" >>) @@
    ("project" :> << "p", "r", "o", "j", "e", "c", "t" >>) @@
    ("target" :> << "t", "a", "r", "g", "e", "t" >>) @@
    ("tsconfig.json" :> << "t", "s", "c", "o", "n", "f", "i", "g", ".", "j", "s", "o", "n" >>) @@
    (".ts" :> << ".", "t", "s" >>) @@
    (".vs" :> << ".", "v", "s" >>) @@
    (".sln" :> << ".", "s", "l", "n" >>) @@
    (".xcodeproj" :> << ".", "x", "c", "o", "d", "e", "p", "r", "o", "j" >>) @@
    ("zig-cache" :> << "z", "i", "g", "-", "c", "a", "c", "h", "e" >>) @@
    ("zig-out" :> << "z", "i", "g", "-", "o", "u", "t" >>) @@
    ("build.zig" :> << "b", "u", "i", "l", "d", ".", "z", "i", "g" >>) @@
    (".mp3" :> << ".", "m", "p", "3" >>) @@
    (".mp4" :> << ".", "m", "p", "4" >>) @@
    (".m4a" :> << ".", "m", "4", "a" >>) @@
    (".ogg" :> << ".", "o", "g", "g" >>) @@
    (".ram" :> << ".", "r", "a", "m" >>) @@
    (".wav" :> << ".", "w", "a", "v" >>) @@
    (".jpeg" :> << ".", "j", "p", "e", "g" >>) @@
    (".jpg" :> << ".", "j", "p", "g" >>) @@
    (".gif" :> << ".", "g", "i", "f" >>) @@
    (".png" :> << ".", "p", "n", "g" >>) @@
    (".svg" :> << ".", "s", "v", "g" >>) @@
    (".tiff" :> << ".", "t", "i", "f", "f" >>) @@
    (".webp" :> << ".", "w", "e", "b", "p" >>) @@
    (".mov" :> << ".", "m", "o", "v" >>) @@
    (".cjs" :> << ".", "c", "j", "s" >>) @@
    (".coffee" :> << ".", "c", "o", "f", "f", "e", "e" >>) @@
    (".cts" :> << ".", "c", "t", "s" >>) @@
    (".js" :> << ".", "j", "s" >>) @@
    (".jsx" :> << ".", "j", "s", "x" >>) @@
    (".mjs" :> << ".", "m", "j", "s" >>) @@
    (".mts" :> << ".", "m", "t", "s" >>) @@
    (".tsx" :> << ".", "t", "s", "x" >>) @@
    (".pod" :> << ".", "p", "o", "d" >>) @@
    (".pl" :> << ".", "p", "l" >>) @@
    (".pm" :> << ".", "p", "m" >>) @@
    (".doc" :> << ".", "d", "o", "c" >>) @@
    (".docx" :> << ".", "d", "o", "c", "x" >>) @@
    (".xls" :> << ".", "x", "l", "s" >>) @@
    (".xlsx" :> << ".", "x", "l", "s", "x" >>) @@
    (".css" :> << ".", "c", "s", "s" >>) @@
    (".htm" :> << ".", "h", "t", "m" >>) @@
    (".html" :> << ".", "h", "t", "m", "l" >>) @@
    (".c" :> << ".", "c" >>) @@
    (".h" :> << ".", "h" >>) @@
    (".cpp" :> << ".", "c", "p", "p" >>) @@
    (".hpp" :> << ".", "h", "p", "p" >>) @@
    (".bz2" :> << ".", "b", "z", "2" >>) @@
    (".gz" :> << ".", "g", "z" >>) @@
    (".xz" :> << ".", "x", "z" >>) @@
    (".zip" :> << ".", "z", "i", "p" >>) @@
    (".lua" :> << ".", "l", "u", "a" >>) @@
    (".php" :> << ".", "p", "h", "p" >>) @@
    (".py" :> << ".", "p", "y" >>) @@
    (".sh" :> << ".", "s", "h" >>) @@
    (".odt" :> << ".", "o", "d", "t" >>) @@
    (".ods" :> << ".", "o", "d", "s" >>) @@
    (".git" :> << ".", "g", "i", "t" >>) @@
    (".github" :> << ".", "g", "i", "t", "h", "u", "b" >>) @@
    ("Icon\r" :> << "I", "c", "o", "n", "\r" >>) @@
    (".DS_Store" :> << ".", "D", "S", "_", "S", "t", "o", "r", "e" >>) @@
    ("pkg.d" :> << "p", "k", "g", ".", "d" >>) @@
    ("b.toml" :> << "b", ".", "t", "o", "m", "l" >>) @@
    ("node" :> << "n", "o", "d", "e" >>) @@
    ("dirsniff.js" :> << "d", "i", "r", "s", "n", "i", "f", "f", ".", "j", "s" >>) @@
    ("r1" :> << "r", "1" >>) @@
    ("-m=0" :> << "-", "m", "=", "0" >>) @@
    ("-m=2" :> << "-", "m", "=", "2" >>) @@
    ("-d" :> << "-", "d" >>) @@
    ("r2" :> << "r", "2" >>) @@
    ("-m=2x" :> << "-", "m", "=", "2", "x" >>) @@
    ("-v" :> << "-", "v" >>) @@
    ("-m=-1" :> << "-", "m", "=", "-", "1" >>) @@
    ("root" :> << "r", "o", "o", "t" >>) @@
    ("f" :> << "f" >>) @@
    (".f" :> << ".", "f" >>) @@
    ("a.txt" :> << "a", ".", "t", "x", "t" >>) @@
    (".a.b" :> << ".", "a", ".", "b" >>) @@
    ("a.b" :> << "a", ".", "b" >>) @@
    ("main" :> << "m", "a", "i", "n" >>) @@
    ("image1.jpg" :> << "i", "m", "a", "g", "e", "1", ".", "j", "p", "g" >>) @@
    ("image2.jpeg" :> << "i", "m", "a", "g", "e", "2", ".", "j", "p", "e", "g" >>) @@
    ("b.txt" :> << "b", ".", "t", "x", "t" >>) @@
    ("readme.txt" :> << "r", "e", "a", "d", "m", "e", ".", "t", "x", "t" >>) @@
    ("a.JPG" :> << "a", ".", "J", "P", "G" >>) @@
    ("song.mp3" :> << "s", "o", "n", "g", ".", "m", "p", "3" >>) @@
    ("Makefile" :> << "M", "a", "k", "e", "f", "i", "l", "e" >>) @@
    (".hidden.mp3" :> << ".", "h", "i", "d", "d", "e", "n", ".", "m", "p", "3" >>) @@
    ("sub" :> << "s", "u", "b" >>) @@
    ("jpeg" :> << "j", "p", "e", "g" >>) @@
    (".txt" :> << ".", "t", "x", "t" >>) @@
    ("a" :> << "a" >>) @@
    ("B" :> << "B" >>) @@
    ("-m=" :> << "-", "m", "=" >>) @@
    ("-m=1=2" :> << "-", "m", "=", "1", "=", "2" >>) @@
    ("--m=3" :> << "-", "-", "m", "=", "3" >>) @@
    ("-n=3" :> << "-", "n", "=", "3" >>) @@
    ("-m" :> << "-", "m" >>) @@
    ("-" :> << "-" >>) @@
    ("m=3" :> << "m", "=", "3" >>) @@
    ("main.xcodeproj" :> << "m", "a", "i", "n", ".", "x", "c", "o", "d", "e", "p", "r", "o", "j" >>) @@
    ("b.jpg" :> << "b", ".", "j", "p", "g" >>) @@
    ("c.JPG" :> << "c", ".", "J", "P", "G" >>) @@
    (".x.jpg" :> << ".", "x", ".", "j", "p", "g" >>) @@
    (".JPG" :> << ".", "J", "P", "G" >>) @@
    ("audio" :> << "a", "u", "d", "i", "o" >>) @@
    ("image" :> << "i", "m", "a", "g", "e" >>) @@
    ("video" :> << "v", "i", "d", "e", "o" >>) @@
    ("media" :> << "m", "e", "d", "i", "a" >>) @@
    ("web" :> << "w", "e", "b" >>) @@
    ("C source" :> << "C", " ", "s", "o", "u", "r", "c", "e" >>) @@
    ("C++ source" :> << "C", "+", "+", " ", "s", "o", "u", "r", "c", "e" >>) @@
    ("archive" :> << "a", "r", "c", "h", "i", "v", "e" >>) @@
    ("Perl script" :> << "P", "e", "r", "l", " ", "s", "c", "r", "i", "p", "t" >>) @@
    ("JavaScript/ECMAScript/CoffeeScript/TypeScript" :> << "J", "a", "v", "a", "S", "c", "r", "i", "p", "t", "/", "E", "C", "M", "A", "S", "c", "r", "i", "p", "t", "/", "C", "o", "f", "f", "e", "e", "S", "c", "r", "i", "p", "t", "/", "T", "y", "p", "e", "S", "c", "r", "i", "p", "t" >>) @@
    ("script" :> << "s", "c", "r", "i", "p", "t" >>) @@
    ("MS Word" :> << "M", "S", " ", "W", "o", "r", "d" >>) @@
    ("word processor" :> << "w", "o", "r", "d", " ", "p", "r", "o", "c", "e", "s", "s", "o", "r" >>) @@
    ("Excel" :> << "E", "x", "c", "e", "l" >>) @@
    ("spreadsheet" :> << "s", "p", "r", "e", "a", "d", "s", "h", "e", "e", "t" >>) @@
    ("MS Office" :> << "M", "S", " ", "O", "f", "f", "i", "c", "e" >>) @@
    ("LibreOffice" :> << "L", "i", "b", "r", "e", "O", "f", "f", "i", "c", "e" >>) @@
    ("office" :> << "o", "f", "f", "i", "c", "e" >>)

S(str) == StrTab[str]

Undefined == "undefined"

UpperToLower ==
    ("A" :> "a") @@ ("B" :> "b") @@ ("C" :> "c") @@ ("D" :> "d") @@
    ("E" :> "e") @@ ("F" :> "f") @@ ("G" :> "g") @@ ("H" :> "h") @@
    ("I" :> "i") @@ ("J" :> "j") @@ ("K" :> "k") @@ ("L" :> "l") @@
    ("M" :> "m") @@ ("N" :> "n") @@ ("O" :> "o") @@ ("P" :> "p") @@
    ("Q" :> "q") @@ ("R" :> "r") @@ ("S" :> "s") @@ ("T" :> "t") @@
    ("U" :> "u") @@ ("V" :> "v") @@ ("W" :> "w") @@ ("X" :> "x") @@
    ("Y" :> "y") @@ ("Z" :> "z")

IsUpper(c) == c \in DOMAIN UpperToLower

\* String.prototype.toLowerCase, on one character and on a string
LowerChar(c) == IF IsUpper(c) THEN UpperToLower[c] ELSE c

toLowerCase(str) == [i \in 1..Len(str) |-> LowerChar(str[i])]

\* String.prototype.includes for a one-character needle
StrIncludes(str, c) == \E i \in 1..Len(str) : str[i] = c

\* str[0] === c  (str[0] is undefined for the empty string)
FirstCharIs(str, c) == Len(str) > 0 /\ str[1] = c

RECURSIVE LastIndexOf(_, _, _)
LastIndexOf(str, c, i) ==
    IF i = 0 THEN 0
    ELSE IF str[i] = c THEN i
    ELSE LastIndexOf(str, c, i - 1)

\* path.extname on a base name: from the last '.' to the end, and the empty
\* string when there is no '.' or the only '.' is the first character
extname(name) ==
    LET k == LastIndexOf(name, ".", Len(name))
    IN  IF k <= 1 THEN <<>>
        ELSE SubSeq(name, k, Len(name))

\* path.join(filename, child): a path is the sequence of its components
PathJoin(filename, child) == Append(filename, child)

HexDigits ==
    {"0","1","2","3","4","5","6","7","8","9",
     "a","b","c","d","e","f","A","B","C","D","E","F"}

\* UUIDRegex.test(name):
\* /^[0-9A-Fa-f]{8}-[0-9A-Fa-f]{4}-[0-9A-Fa-f]{4}-[0-9A-Fa-f]{4}-[0-9A-Fa-f]{12}$|^[0-9A-Fa-f]{32}$/
UUIDRegexTest(name) ==
    \/ /\ Len(name) = 36
       /\ \A i \in 1..36 :
            IF i \in {9, 14, 19, 24} THEN name[i] = "-"
            ELSE name[i] \in HexDigits
    \/ /\ Len(name) = 32
       /\ \A i \in 1..32 : name[i] \in HexDigits

\* the collation order of the characters that occur in names: white space
\* (the carriage return of "Icon\r"), punctuation, then digits, then letters;
\* accents and case are tie-breaks only (unaccented first, lower case first)
CollationOrder == S("\r_-.0123456789abcdefghijklmnopqrstuvwxyz")

\* the position of every character in the collation order
CollationWeight ==
    [ c \in { CollationOrder[i] : i \in 1..Len(CollationOrder) } |->
        CHOOSE i \in 1..Len(CollationOrder) : CollationOrder[i] = c ]

PrimaryWeight(c) == CollationWeight[LowerChar(c)]

CaseWeight(c) == IF IsUpper(c) THEN 1 ELSE 0

\* the canonical decomposition of a string. A character outside ASCII is
\* written as its code point: "U+00E9" is the letter e with acute accent,
\* "U+0301" the combining acute accent, and the letter decomposes into e
\* followed by the accent
RECURSIVE Decomposed(_)
Decomposed(a) ==
    IF \A i \in 1..Len(a) : a[i] # "U+00E9" THEN a
    ELSE (IF Head(a) = "U+00E9" THEN << "e", "U+0301" >> ELSE << Head(a) >>)
         \o Decomposed(Tail(a))

RECURSIVE CompareKeys(_, _, _)
CompareKeys(ka, kb, i) ==
    IF i > Len(ka) /\ i > Len(kb) THEN 0
    ELSE IF i > Len(ka) THEN -1
    ELSE IF i > Len(kb) THEN 1
    ELSE IF ka[i] < kb[i] THEN -1
    ELSE IF ka[i] > kb[i] THEN 1
    ELSE CompareKeys(ka, kb, i + 1)

\* a.localeCompare(b): negative, zero or positive. The strings are compared
\* in canonically decomposed form, so that canonically equivalent strings
\* compare equal: by the primary weights of their characters (a combining
\* accent has none), then by their accents, then by case
localeCompare(a, b) ==
    LET da == Decomposed(a)
        db == Decomposed(b)
        la == SelectSeq(da, LAMBDA c : c # "U+0301")
        lb == SelectSeq(db, LAMBDA c : c # "U+0301")
        p  == CompareKeys([i \in 1..Len(la) |-> PrimaryWeight(la[i])],
                          [i \in 1..Len(lb) |-> PrimaryWeight(lb[i])], 1)
        s  == CompareKeys([i \in 1..Len(da) |-> IF da[i] = "U+0301" THEN 1 ELSE 0],
                          [i \in 1..Len(db) |-> IF db[i] = "U+0301" THEN 1 ELSE 0],
                          1)
    IN  IF p # 0 THEN p
        ELSE IF s # 0 THEN s
        ELSE CompareKeys([i \in 1..Len(da) |-> CaseWeight(da[i])],
                         [i \in 1..Len(db) |-> CaseWeight(db[i])], 1)

RECURSIVE InsertSorted(_, _)
InsertSorted(sorted, d) ==
    IF sorted = <<>> THEN <<d>>
    ELSE IF localeCompare(d.name, Head(sorted).name) < 0 THEN <<d>> \o sorted
    ELSE <<Head(sorted)>> \o InsertSorted(Tail(sorted), d)

RECURSIVE SortFrom(_, _, _)
SortFrom(input, k, sorted) ==
    IF k > Len(input) THEN sorted
    ELSE SortFrom(input, k + 1, InsertSorted(sorted, input[k]))

\* veryRawDirents.sort((a, b) => a.name.localeCompare(b.name)); the sort is
\* stable, and InsertSorted places an entry after the entries it equals
SortByName(veryRawDirents) == SortFrom(veryRawDirents, 1, <<>>)

\* ---------------------------------------------------------------- entries

\* What fsp.readdir(filename, {withFileTypes: true}) reports for one entry,
\* and what fsp.lstat of that entry will answer: "ok" or an error code.
\* type is "file", "dir", "symlink" or "other" (socket, fifo, device).
RawDirent(name, type, lstat, size) ==
    [name |-> name, type |-> type, lstat |-> lstat, size |-> size]

DirentStatSwallowsErrorMutant(dirent) ==
    [name |-> dirent.name,
     isFile |-> dirent.type = "file",
     isDirectory |-> dirent.type = "dir",
     isSymbolicLink |-> dirent.type = "symlink",
     size |-> IF dirent.type = "file" /\ dirent.lstat = "ok"
              THEN <<dirent.size>> ELSE <<>>,
     statError |-> Undefined]

\* One element of readdirAndStat's rawDirents.map(async dirent => ...):
\* lstat is called for files only; when it throws, the entry is replaced by
\* one that is neither file, directory nor link and carries statError.
\* An absent size is the empty sequence.
DirentStat(dirent) ==
    IF dirent.type = "file" /\ dirent.lstat # "ok"
    THEN [name |-> dirent.name, isFile |-> FALSE, isDirectory |-> FALSE,
          isSymbolicLink |-> FALSE, size |-> <<>>, statError |-> dirent.lstat]
    ELSE [name |-> dirent.name,
          isFile |-> dirent.type = "file",
          isDirectory |-> dirent.type = "dir",
          isSymbolicLink |-> dirent.type = "symlink",
          size |-> IF dirent.type = "file" THEN <<dirent.size>> ELSE <<>>,
          statError |-> Undefined]

\* the orders in which n promises may settle: any of them when the stats
\* race, that of the promises' creation otherwise
CompletionOrders(racing, n) ==
    IF racing THEN Permutations(1..n) ELSE { [i \in 1..n |-> i] }

PromiseAllByCompletionMutant(rawDirents, completion) ==
    [j \in 1..Len(completion) |-> DirentStat(rawDirents[completion[j]])]

\* Promise.all(rawDirents.map(async (dirent) => ...)): the promises settle
\* in the order completion, and the value of each is kept at the position of
\* its promise, whenever it settles
PromiseAll(rawDirents, completion) ==
    LET settled == [j \in 1..Len(completion) |->
                        [index |-> completion[j],
                         value |-> DirentStat(rawDirents[completion[j]])]]
    IN  [i \in 1..Len(rawDirents) |->
            settled[CHOOSE j \in 1..Len(settled) : settled[j].index = i].value]

\* readdirAndStat after a successful readdir: sort by name, then Promise.all
\* over the per-entry stats
readdirAndStat(veryRawDirents, completion) ==
    LET rawDirents == SortByName(veryRawDirents)
    IN  PromiseAll(rawDirents, completion)

\* ---------------------------------------------------------------- collate

\* the predicates of processDirents' call to collate, in list order
\* (position i here is index i - 1 in the source)
Tests ==
    << "broken", "symlink", "unknown", "dotFile", "normalFile",
       "dotDir", "dirWithExtension", "UUID", "normalDir" >>

TestUnknownMutant(t, d) ==
    CASE t = "broken"           -> d.statError # Undefined
      [] t = "symlink"          -> d.isSymbolicLink
      [] t = "unknown"          -> d.isFile /\ d.isDirectory
      [] t = "dotFile"          -> d.isFile /\ FirstCharIs(d.name, ".")
      [] t = "normalFile"       -> d.isFile
      [] t = "dotDir"           -> d.isDirectory /\ FirstCharIs(d.name, ".")
      [] t = "dirWithExtension" -> d.isDirectory /\ StrIncludes(d.name, ".")
      [] t = "UUID"             -> d.isDirectory /\ UUIDRegexTest(d.name)
      [] t = "normalDir"        -> d.isDirectory

Test(t, d) ==
    CASE t = "broken"           -> d.statError # Undefined
      [] t = "symlink"          -> d.isSymbolicLink
      [] t = "unknown"          -> ~d.isFile /\ ~d.isDirectory
      [] t = "dotFile"          -> d.isFile /\ FirstCharIs(d.name, ".")
      [] t = "normalFile"       -> d.isFile
      [] t = "dotDir"           -> d.isDirectory /\ FirstCharIs(d.name, ".")
      [] t = "dirWithExtension" -> d.isDirectory /\ StrIncludes(d.name, ".")
      [] t = "UUID"             -> d.isDirectory /\ UUIDRegexTest(d.name)
      [] t = "normalDir"        -> d.isDirectory

RECURSIVE LastIndexMutant(_, _, _)
LastIndexMutant(tests, d, i) ==
    IF i > Len(tests) THEN Len(tests) + 1
    ELSE LET rest == LastIndexMutant(tests, d, i + 1)
         IN  IF rest <= Len(tests) THEN rest
             ELSE IF Test(tests[i], d) THEN i
             ELSE rest

\* let index = tests.length; tests.some((t, i) => { r = t(d); if (r) index = i;
\* return r }): the tests are tried in order from position i and the scan
\* stops at the first that holds
RECURSIVE SomeIndex(_, _, _)
SomeIndex(tests, d, i) ==
    IF i > Len(tests) THEN Len(tests) + 1
    ELSE IF Test(tests[i], d) THEN i
    ELSE SomeIndex(tests, d, i + 1)

RECURSIVE CollateFrom(_, _, _, _)
CollateFrom(input, tests, k, a) ==
    IF k > Len(input) THEN a
    ELSE LET index == SomeIndex(tests, input[k], 1)
         IN  CollateFrom(input, tests, k + 1,
                         [a EXCEPT ![index] = Append(@, input[k])])

\* collate(input, tests): tests.length + 1 arrays, the last for the elements
\* that pass no test
collate(input, tests) ==
    CollateFrom(input, tests, 1, [i \in 1..(Len(tests) + 1) |-> <<>>])

Names(ds) == [i \in 1..Len(ds) |-> ds[i].name]

\* collate(dirents, [...]).map(dsa => dsa.map(ds => ds.name)), destructured
Buckets(dirents) ==
    LET c == collate(dirents, Tests)
    IN  [ brokenEntries             |-> Names(c[1]),
          symbolicLinks             |-> Names(c[2]),
          unknownEntries            |-> Names(c[3]),
          dotFiles                  |-> Names(c[4]),
          normalFiles               |-> Names(c[5]),
          dotDirectories            |-> Names(c[6]),
          directoriesWithExtensions |-> Names(c[7]),
          UUIDDirectories           |-> Names(c[8]),
          normalDirectories         |-> Names(c[9]),
          shouldBeEmpty             |-> Names(c[10]) ]

\* ---------------------------------------------------------------- extensions

\* normalFiles.filter(n => n.includes('.')).map(d => path.extname(d))
FileExtensions(normalFiles) ==
    LET dotted == SelectSeq(normalFiles, LAMBDA n : StrIncludes(n, "."))
    IN  [i \in 1..Len(dotted) |-> extname(dotted[i])]

\* directoriesWithExtensions.map(d => path.extname(d))
DirExtensions(directoriesWithExtensions) ==
    [i \in 1..Len(directoriesWithExtensions) |->
        extname(directoriesWithExtensions[i])]

KeyIndex(obj, key) ==
    IF \E i \in 1..Len(obj) : obj[i].key = key
    THEN CHOOSE i \in 1..Len(obj) : obj[i].key = key
    ELSE 0

RECURSIVE CountFrom(_, _, _, _)
CountFrom(array, foldcase, k, obj) ==
    IF k > Len(array) THEN obj
    ELSE LET lcs == IF foldcase THEN toLowerCase(array[k]) ELSE array[k]
             at  == KeyIndex(obj, lcs)
         IN  CountFrom(array, foldcase, k + 1,
                IF at = 0 THEN Append(obj, [key |-> lcs, count |-> 1])
                ELSE [obj EXCEPT ![at].count = @ + 1])

countArrayFieldsNeverFoldsMutant(array, foldcase) ==
    CountFrom(array, FALSE, 1, <<>>)

\* countArrayFieldsToObject(array, foldcase): an object is the sequence of
\* its (key, count) properties in insertion order, the order of Object.keys
countArrayFieldsToObject(array, foldcase) == CountFrom(array, foldcase, 1, <<>>)

ObjectKeys(obj) == [i \in 1..Len(obj) |-> obj[i].key]

\* ---------------------------------------------------------------- signatures

includesAllAndNothingElseMutant(dirents, filenames) ==
    /\ \A n \in 1..Len(filenames) :
        \E d \in 1..Len(dirents) : dirents[d] = filenames[n]
    /\ \A d \in 1..Len(dirents) :
        \E n \in 1..Len(filenames) : dirents[d] = filenames[n]

includesAll(dirents, filenames) ==
    \A n \in 1..Len(filenames) :
        \E d \in 1..Len(dirents) : dirents[d] = filenames[n]

includesAny(dirents, filenames) ==
    \E n \in 1..Len(filenames) :
        \E d \in 1..Len(dirents) : dirents[d] = filenames[n]

\* strings.includes(str[0]): only the first needle is looked for
includes(strings, str) ==
    /\ Len(str) > 0
    /\ \E d \in 1..Len(strings) : strings[d] = str[1]

\* the table of autoIdentify; a step's haystack names the argument it reads
table ==
  <<
     [name |-> "Android Studio or IntelliJ IDEA project", steps |-> <<
         [haystack |-> "dotDirectories", check |-> "includes",
          needles |-> << S(".idea") >>] >>],
     [name |-> "Clojure project", steps |-> <<
         [haystack |-> "normalFiles", check |-> "includes",
          needles |-> << S("project.clj") >>],
         [haystack |-> "normalDirectories", check |-> "includesAll",
          needles |-> << S("src"), S("test") >>] >>],
     [name |-> "Crystal project", steps |-> <<
         [haystack |-> "dotFiles", check |-> "includesAll",
          needles |-> << S(".gitignore"), S(".editorconfig") >>],
         [haystack |-> "normalFiles", check |-> "includesAll",
          needles |-> << S("LICENSE"), S("README.md"), S("shard.yml") >>],
         [haystack |-> "normalDirectories", check |-> "includesAll",
          needles |-> << S("src"), S("spec") >>] >>],
     [name |-> "D (DUB) project", steps |-> <<
         [haystack |-> "normalFiles", check |-> "includesAny",
          needles |-> << S("dub.json"), S("dub.sdl") >>] >>],
     [name |-> "Dart package", steps |-> <<
         [haystack |-> "normalFiles", check |-> "includes",
          needles |-> << S("pubspec.yaml") >>],
         [haystack |-> "normalDirectories", check |-> "includes",
          needles |-> << S("lib") >>] >>],
     [name |-> "Deno folder", steps |-> <<
         [haystack |-> "normalFiles", check |-> "includesAny",
          needles |-> << S("deno.json"), S("deno.jsonc") >>] >>],
     [name |-> "Eclipse workspace", steps |-> <<
         [haystack |-> "dotFiles", check |-> "includesAll",
          needles |-> << S(".classpath"), S(".project") >>],
         [haystack |-> "dotDirectories", check |-> "includes",
          needles |-> << S(".settings") >>],
         [haystack |-> "normalDirectories", check |-> "includesAll",
          needles |-> << S("bin"), S("src") >>] >>],
     [name |-> "Flutter project", steps |-> <<
         [haystack |-> "dotDirectories", check |-> "includesAll",
          needles |-> << S(".dart_tool"), S(".idea") >>],
         [haystack |-> "normalDirectories", check |-> "includesAll",
          needles |-> << S("android"), S("ios"), S("lib"), S("test") >>],
         [haystack |-> "dotFiles", check |-> "includesAll",
          needles |-> << S(".gitignore"), S(".metadata"), S(".packages") >>],
         [haystack |-> "normalFiles", check |-> "includesAll",
          needles |-> << S("demo_app.iml"), S("pubspec.lock"), S("pubspec.yaml") >>] >>],
     [name |-> "Ghidra project", steps |-> <<
         [haystack |-> "normalDirectories", check |-> "includesAll",
          needles |-> << S("idata"), S("user"), S("versioned") >>],
         [haystack |-> "normalFiles", check |-> "includesAll",
          needles |-> << S("project.prp"), S("projectState") >>] >>],
     [name |-> "Git repository .git directory", steps |-> <<
         [haystack |-> "normalFiles", check |-> "includesAll",
          needles |-> << S("HEAD"), S("config"), S("description") >>],
         [haystack |-> "normalDirectories", check |-> "includesAll",
          needles |-> << S("hooks"), S("info"), S("objects"), S("refs") >>] >>],
     [name |-> "Go module", steps |-> <<
         [haystack |-> "normalFiles", check |-> "includes",
          needles |-> << S("go.mod") >>] >>],
     [name |-> "Gradle project", steps |-> <<
         [haystack |-> "normalFiles", check |-> "includes",
          needles |-> << S("build.gradle") >>] >>],
     [name |-> "Hack project", steps |-> <<
         [haystack |-> "dotFiles", check |-> "includes",
          needles |-> << S(".hhconfig") >>] >>],
     [name |-> "Julia package", steps |-> <<
         [haystack |-> "normalFiles", check |-> "includes",
          needles |-> << S("Project.toml") >>],
         [haystack |-> "normalDirectories", check |-> "includes",
          needles |-> << S("src") >>] >>],
     [name |-> "macOS application", steps |-> <<
         [haystack |-> "normalDirectories", check |-> "includes",
          needles |-> << S("Contents") >>] >>],
     [name |-> "macOS application (wrapped)", steps |-> <<
         [haystack |-> "normalDirectories", check |-> "includes",
          needles |-> << S("Wrapper") >>],
         [haystack |-> "symbolicLinks", check |-> "includes",
          needles |-> << S("WrappedBundle") >>] >>],
     [name |-> "Nim package", steps |-> <<
         [haystack |-> "normalDirectories", check |-> "includesAll",
          needles |-> << S("src"), S("tests") >>],
         [haystack |-> "fileExtensions", check |-> "includes",
          needles |-> << S(".nimble") >>] >>],
     [name |-> "Perl CPAN module", steps |-> <<
         [haystack |-> "normalDirectories", check |-> "includes",
          needles |-> << S("t") >>],
         [haystack |-> "normalFiles", check |-> "includes",
          needles |-> << S("Makefile.PL") >>] >>],
     [name |-> "Python package", steps |-> <<
         [haystack |-> "normalFiles", check |-> "includes",
          needles |-> << S("__init__.py") >>] >>],
     [name |-> "Racket package", steps |-> <<
         [haystack |-> "normalFiles", check |-> "includes",
          needles |-> << S("info.rkt") >>] >>],
     [name |-> "React Native project", steps |-> <<
         [haystack |-> "normalDirectories", check |-> "includesAll",
          needles |-> << S("ios"), S("android") >>],
         [haystack |-> "normalFiles", check |-> "includesAll",
          needles |-> << S("index.js"), S("App.js") >>] >>],
     [name |-> "Retro Virtual Machine", steps |-> <<
         [haystack |-> "normalDirectories", check |-> "includes",
          needles |-> << S("snap") >>],
         [haystack |-> "normalFiles", check |-> "includes",
          needles |-> << S("machine") >>] >>],
     [name |-> "Rust project", steps |-> <<
         [haystack |-> "normalFiles", check |-> "includesAll",
          needles |-> << S("Cargo.lock"), S("Cargo.toml") >>],
         [haystack |-> "normalDirectories", check |-> "includesAll",
          needles |-> << S("src") >>] >>],
     [name |-> "Scala project", steps |-> <<
         [haystack |-> "normalFiles", check |-> "includes",
          needles |-> << S("build.sbt") >>],
         [haystack |-> "normalDirectories", check |-> "includesAll",
          needles |-> << S("project"), S("src"), S("target") >>] >>],
     [name |-> "Typescript project", steps |-> <<
         [haystack |-> "normalFiles", check |-> "includes",
          needles |-> << S("tsconfig.json") >>],
         [haystack |-> "fileExtensions", check |-> "includes",
          needles |-> << S(".ts") >>] >>],
     [name |-> "Visual Studio project", steps |-> <<
         [haystack |-> "dotDirectories", check |-> "includes",
          needles |-> << S(".vs") >>],
         [haystack |-> "fileExtensions", check |-> "includes",
          needles |-> << S(".sln") >>] >>],
     [name |-> "Xcode project", steps |-> <<
         [haystack |-> "dirExtensions", check |-> "includes",
          needles |-> << S(".xcodeproj") >>] >>],
     [name |-> "Zig project", steps |-> <<
         [haystack |-> "normalDirectories", check |-> "includesAll",
          needles |-> << S("src"), S("zig-cache"), S("zig-out") >>],
         [haystack |-> "normalFiles", check |-> "includes",
          needles |-> << S("build.zig") >>] >>]
  >>

Check(check, haystack, needles) ==
    CASE check = "includesAll" -> includesAll(haystack, needles)
      [] check = "includesAny" -> includesAny(haystack, needles)
      [] check = "includes"    -> includes(haystack, needles)

\* entry.steps.every(s => check(haystack, needles))
StepsPass(entry, h) ==
    \A s \in 1..Len(entry.steps) :
        Check(entry.steps[s].check, h[entry.steps[s].haystack],
              entry.steps[s].needles)

RECURSIVE AnswersFirstOnlyMutant(_, _, _, _)
AnswersFirstOnlyMutant(tab, h, k, answers) ==
    IF k > Len(tab) THEN answers
    ELSE IF StepsPass(tab[k], h) THEN Append(answers, tab[k].name)
    ELSE AnswersFirstOnlyMutant(tab, h, k + 1, answers)

\* table.forEach(entry => { if (every step passes) answers.push(entry.name) }),
\* from entry k on: the names of the entries that pass are pushed in table
\* order
AnswersFrom(tab, h, k, answers) ==
    LET passing == SelectSeq([j \in 1..(Len(tab) - k + 1) |-> k + j - 1],
                             LAMBDA j : StepsPass(tab[j], h))
    IN  answers \o [i \in 1..Len(passing) |-> tab[passing[i]].name]

\* autoIdentify(normalDirectories, dotDirectories, dirExtensions, normalFiles,
\* dotFiles, fileExtensions, symbolicLinks); h is the record of the arguments
autoIdentify(h) == AnswersFrom(table, h, 1, <<>>)

\* ---------------------------------------------------------------- collections

audioexts == << S(".mp3"), S(".mp4"), S(".m4a"), S(".ogg"), S(".ram"), S(".wav") >>
jpegexts == << S(".jpeg"), S(".jpg") >>
otherimgexts == << S(".gif"), S(".png"), S(".svg"), S(".tiff"), S(".webp") >>
videxts == << S(".mov"), S(".mp4"), S(".webp") >>
jsexts ==
    << S(".cjs"), S(".coffee"), S(".cts"), S(".js"), S(".jsx"), S(".mjs"),
       S(".mts"), S(".ts"), S(".tsx") >>
plexts == << S(".pod"), S(".pl"), S(".pm") >>
wordexts == << S(".doc"), S(".docx") >>
excelexts == << S(".xls"), S(".xlsx") >>

ExtClass(name, exts) == [name |-> S(name), exts |-> exts]

extensionsImageFirstMutant ==
    << ExtClass("audio", audioexts),
       ExtClass("image", jpegexts \o otherimgexts),
       ExtClass("jpeg", jpegexts),
       ExtClass("video", videxts),
       ExtClass("media", jpegexts \o otherimgexts \o audioexts \o videxts),
       ExtClass("web", << S(".css"), S(".htm"), S(".html"), S(".js") >>),
       ExtClass("C source", << S(".c"), S(".h") >>),
       ExtClass("C++ source", << S(".cpp"), S(".hpp") >>),
       ExtClass("archive", << S(".bz2"), S(".gz"), S(".xz"), S(".zip") >>),
       ExtClass("Perl script", plexts),
       ExtClass("JavaScript/ECMAScript/CoffeeScript/TypeScript", jsexts),
       ExtClass("script",
                jsexts \o plexts \o << S(".lua"), S(".php"), S(".py"), S(".sh") >>),
       ExtClass("MS Word", wordexts),
       ExtClass("word processor", wordexts \o << S(".odt") >>),
       ExtClass("Excel", excelexts),
       ExtClass("spreadsheet", excelexts \o << S(".ods") >>),
       ExtClass("MS Office", wordexts \o excelexts),
       ExtClass("LibreOffice", << S(".odt"), S(".ods") >>),
       ExtClass("office", wordexts \o excelexts \o << S(".odt"), S(".ods") >>) >>

\* the ordered list of extension classes of checkForCollections
extensions ==
    << ExtClass("audio", audioexts),
       ExtClass("jpeg", jpegexts),
       ExtClass("image", jpegexts \o otherimgexts),
       ExtClass("video", videxts),
       ExtClass("media", jpegexts \o otherimgexts \o audioexts \o videxts),
       ExtClass("web", << S(".css"), S(".htm"), S(".html"), S(".js") >>),
       ExtClass("C source", << S(".c"), S(".h") >>),
       ExtClass("C++ source", << S(".cpp"), S(".hpp") >>),
       ExtClass("archive", << S(".bz2"), S(".gz"), S(".xz"), S(".zip") >>),
       ExtClass("Perl script", plexts),
       ExtClass("JavaScript/ECMAScript/CoffeeScript/TypeScript", jsexts),
       ExtClass("script",
                jsexts \o plexts \o << S(".lua"), S(".php"), S(".py"), S(".sh") >>),
       ExtClass("MS Word", wordexts),
       ExtClass("word processor", wordexts \o << S(".odt") >>),
       ExtClass("Excel", excelexts),
       ExtClass("spreadsheet", excelexts \o << S(".ods") >>),
       ExtClass("MS Office", wordexts \o excelexts),
       ExtClass("LibreOffice", << S(".odt"), S(".ods") >>),
       ExtClass("office", wordexts \o excelexts \o << S(".odt"), S(".ods") >>) >>

\* e.exts.includes(v)
ArrayIncludes(array, v) == \E i \in 1..Len(array) : array[i] = v

\* fileExtensionsInThisDir.every(v => e.exts.includes(v))
ClassHoldsAll(e, keys) == \A k \in 1..Len(keys) : ArrayIncludes(e.exts, keys[k])

\* extensions.some(e => ...): the position of the first class that holds every
\* key, 0 when there is none
RECURSIVE FirstClass(_, _, _)
FirstClass(classes, keys, k) ==
    IF k > Len(classes) THEN 0
    ELSE IF ClassHoldsAll(classes[k], keys) THEN k
    ELSE FirstClass(classes, keys, k + 1)

\* `a collection of ${n} ${kind} files`
CollectionOf(n, kind) == << n, kind >>

checkForCollectionsAnyCountMutant(fileextObj, fileExtensions) ==
    LET fileExtensionsInThisDir == ObjectKeys(fileextObj)
    IN  IF Len(fileExtensionsInThisDir) = 1
        THEN CollectionOf(fileextObj[1].count, fileextObj[1].key)
        ELSE IF Len(fileExtensionsInThisDir) > 0
        THEN LET c == FirstClass(extensions, fileExtensionsInThisDir, 1)
             IN  IF c = 0 THEN <<>>
                 ELSE CollectionOf(Len(fileExtensions), extensions[c].name)
        ELSE <<>>

checkForCollectionsDistinctCountMutant(fileextObj, fileExtensions) ==
    LET fileExtensionsInThisDir == ObjectKeys(fileextObj)
    IN  IF Len(fileExtensionsInThisDir) = 1
        THEN IF fileextObj[1].count > 1
             THEN CollectionOf(fileextObj[1].count, fileextObj[1].key)
             ELSE <<>>
        ELSE IF Len(fileExtensionsInThisDir) > 0
        THEN LET c == FirstClass(extensions, fileExtensionsInThisDir, 1)
             IN  IF c = 0 THEN <<>>
                 ELSE CollectionOf(Len(fileExtensionsInThisDir),
                                   extensions[c].name)
        ELSE <<>>

checkForCollectionsNoElseMutant(fileextObj, fileExtensions) ==
    LET fileExtensionsInThisDir == ObjectKeys(fileextObj)
    IN  IF Len(fileExtensionsInThisDir) = 1 /\ fileextObj[1].count > 1
        THEN CollectionOf(fileextObj[1].count, fileextObj[1].key)
        ELSE IF Len(fileExtensionsInThisDir) > 0
        THEN LET c == FirstClass(extensions, fileExtensionsInThisDir, 1)
             IN  IF c = 0 THEN <<>>
                 ELSE CollectionOf(Len(fileExtensions), extensions[c].name)
        ELSE <<>>

\* checkForCollections(fileextObj, fileExtensions); undefined is the empty
\* sequence
checkForCollections(fileextObj, fileExtensions) ==
    LET fileExtensionsInThisDir == ObjectKeys(fileextObj)
    IN  IF Len(fileExtensionsInThisDir) = 1
        THEN LET onlykey == fileExtensionsInThisDir[1]
                 numkeys == fileextObj[1].count
             IN  IF numkeys > 1 THEN CollectionOf(numkeys, onlykey)
                 ELSE <<>>
        ELSE IF Len(fileExtensionsInThisDir) > 0
        THEN LET c == FirstClass(extensions, fileExtensionsInThisDir, 1)
             IN  IF c = 0 THEN <<>>
                 ELSE CollectionOf(Len(fileExtensions), extensions[c].name)
        ELSE <<>>

\* ---------------------------------------------------------------- notes

checkAdditionalNotesBothGitMutant(dotDirectories, normalFiles, dotFiles) ==
    ( IF includes(dotDirectories, << S(".git") >>)
      THEN << "GitRepository" >>
           \o (IF includes(dotDirectories, << S(".github") >>)
               THEN << "GitHubRepository" >> ELSE <<>>)
      ELSE <<>> )
    \o
    ( IF \/ includes(normalFiles, << S("Icon\r") >>)
         \/ includes(dotFiles, << S(".DS_Store") >>)
      THEN << "MacFinderFiles" >>
      ELSE <<>> )

\* checkAdditionalNotes(dotDirectories, normalFiles, dotFiles)
checkAdditionalNotes(dotDirectories, normalFiles, dotFiles) ==
    ( IF includes(dotDirectories, << S(".git") >>)
      THEN IF includes(dotDirectories, << S(".github") >>)
           THEN << "GitHubRepository" >>
           ELSE << "GitRepository" >>
      ELSE <<>> )
    \o
    ( IF \/ includes(normalFiles, << S("Icon\r") >>)
         \/ includes(dotFiles, << S(".DS_Store") >>)
      THEN << "MacFinderFiles" >>
      ELSE <<>> )

\* ---------------------------------------------------------------- state

VARIABLES
    argv,       \* process.argv
    MAXDEPTH,   \* how many directories deep to look when nothing is recognized
    VERBOSE,    \* -v
    FOLLOWDOT,  \* -d
    pc,         \* "start": before processCommandline; "main": in main's loop;
                \* "done": after printResults
    args,       \* main's args, the root paths
    mi,         \* main's loop variable i
    results,    \* main's results
    stack,      \* the pending processDirents calls, innermost last; each frame
                \* holds the call's parameters and the locals its loop uses
    dirsLeft    \* file system: how many more directories its listings may
                \* still show (negative: no limit)

vars == << argv, MAXDEPTH, VERBOSE, FOLLOWDOT, pc, args, mi, results, stack,
           dirsLeft >>

\* ---------------------------------------------------------------- command line

Digits == << "0", "1", "2", "3", "4", "5", "6", "7", "8", "9" >>

IsDigit(c) == \E i \in 1..Len(Digits) : Digits[i] = c

DigitValue(c) == (CHOOSE i \in 1..Len(Digits) : Digits[i] = c) - 1

RECURSIVE DigitsValue(_, _, _)
DigitsValue(str, i, acc) ==
    IF i > Len(str) \/ ~IsDigit(str[i]) THEN acc
    ELSE DigitsValue(str, i + 1, acc * 10 + DigitValue(str[i]))

HasSign(str) == Len(str) > 0 /\ str[1] \in {"-", "+"}

Signed(str, n) == IF Len(str) > 0 /\ str[1] = "-" THEN 0 - n ELSE n

\* parseInt(str, 10) for a string without white space: an optional sign and
\* the longest run of digits after it; NaN (the empty sequence) without a digit
parseInt10(str) ==
    LET from == IF HasSign(str) THEN 2 ELSE 1
    IN  IF from > Len(str) \/ ~IsDigit(str[from]) THEN <<>>
        ELSE << Signed(str, DigitsValue(str, from, 0)) >>

\* Number(str) for a string of digits, signs and letters that spell no
\* numeric literal: 0 for the empty string, the value of an optionally
\* signed run of digits, NaN (the empty sequence) for anything else
NumberOf(str) ==
    LET from == IF HasSign(str) THEN 2 ELSE 1
    IN  IF str = <<>> THEN << 0 >>
        ELSE IF from <= Len(str) /\ \A i \in from..Len(str) : IsDigit(str[i])
        THEN << Signed(str, DigitsValue(str, from, 0)) >>
        ELSE <<>>

\* str.split('=')
RECURSIVE SplitFrom(_, _, _, _)
SplitFrom(str, i, cur, parts) ==
    IF i > Len(str) THEN Append(parts, cur)
    ELSE IF str[i] = "=" THEN SplitFrom(str, i + 1, <<>>, Append(parts, cur))
    ELSE SplitFrom(str, i + 1, Append(cur, str[i]), parts)

SplitEq(str) == SplitFrom(str, 1, <<>>, <<>>)

ProcessArgOptionsBeforeRootsMutant(c, arg) ==
    IF FirstCharIs(arg, "-")
    THEN IF c.args # <<>> THEN c
         ELSE IF Len(arg) = 2
         THEN CASE arg[2] = "v" -> [c EXCEPT !.VERBOSE = TRUE]
                [] arg[2] = "d" -> [c EXCEPT !.FOLLOWDOT = TRUE]
                [] OTHER -> c
         ELSE LET kv == SplitEq(SubSeq(arg, 2, Len(arg)))
              IN  IF Len(kv) = 2 /\ Len(kv[1]) = 1 /\ kv[1][1] = "m"
                  THEN LET numpi  == parseInt10(kv[2])
                           numnum == NumberOf(kv[2])
                       IN  IF numpi # <<>> /\ numnum # <<>> /\ numpi = numnum
                           THEN [c EXCEPT !.MAXDEPTH = numnum[1]]
                           ELSE c
                  ELSE c
    ELSE [c EXCEPT !.args = Append(@, arg)]

ProcessArgParseIntOnlyMutant(c, arg) ==
    IF FirstCharIs(arg, "-")
    THEN IF Len(arg) = 2
         THEN CASE arg[2] = "v" -> [c EXCEPT !.VERBOSE = TRUE]
                [] arg[2] = "d" -> [c EXCEPT !.FOLLOWDOT = TRUE]
                [] OTHER -> c
         ELSE LET kv == SplitEq(SubSeq(arg, 2, Len(arg)))
              IN  IF Len(kv) = 2 /\ Len(kv[1]) = 1 /\ kv[1][1] = "m"
                  THEN LET numpi == parseInt10(kv[2])
                       IN  IF numpi # <<>>
                           THEN [c EXCEPT !.MAXDEPTH = numpi[1]]
                           ELSE c
                  ELSE c
    ELSE [c EXCEPT !.args = Append(@, arg)]

\* the body of processCommandline's loop for one argument; c holds args and
\* the three options
ProcessArg(c, arg) ==
    IF FirstCharIs(arg, "-")
    THEN IF Len(arg) = 2
         THEN CASE arg[2] = "v" -> [c EXCEPT !.VERBOSE = TRUE]
                [] arg[2] = "d" -> [c EXCEPT !.FOLLOWDOT = TRUE]
                [] OTHER -> c
         ELSE LET kv == SplitEq(SubSeq(arg, 2, Len(arg)))
              IN  IF Len(kv) = 2 /\ Len(kv[1]) = 1 /\ kv[1][1] = "m"
                  THEN LET numpi  == parseInt10(kv[2])
                           numnum == NumberOf(kv[2])
                       IN  IF numpi # <<>> /\ numnum # <<>> /\ numpi = numnum
                           THEN [c EXCEPT !.MAXDEPTH = numnum[1]]
                           ELSE c
                  ELSE c
    ELSE [c EXCEPT !.args = Append(@, arg)]

\* for (let i = 2; i < argv.length; ++i): argv[0] and argv[1] are skipped
RECURSIVE ProcessArgsFrom(_, _, _)
ProcessArgsFrom(av, k, c) ==
    IF k > Len(av) THEN c
    ELSE ProcessArgsFrom(av, k + 1, ProcessArg(c, av[k]))

processCommandline(av) ==
    ProcessArgsFrom(av, 3,
        [args |-> <<>>, MAXDEPTH |-> MAXDEPTH, VERBOSE |-> VERBOSE,
         FOLLOWDOT |-> FOLLOWDOT])

\* ---------------------------------------------------------------- processDirents

\* a DirectoryInfo; an optional field that is not set is the empty sequence
\* (error, verboseSummary: Undefined)
DirectoryInfo(name, kind, identified, error) ==
    [ name |-> name, kind |-> kind, identified |-> identified, error |-> error,
      additionalInfo |-> <<>>, identificationFailures |-> <<>>,
      answers |-> <<>>, collections |-> <<>>, verboseSummary |-> Undefined,
      directoryInfos |-> <<>> ]

WhichDirectoriesSwappedMutant(b) ==
    b.directoriesWithExtensions \o b.normalDirectories
    \o (IF FOLLOWDOT THEN b.dotDirectories \o b.UUIDDirectories ELSE <<>>)

WhichDirectoriesAlwaysDotMutant(b) ==
    b.normalDirectories \o b.directoriesWithExtensions
    \o b.dotDirectories \o b.UUIDDirectories

\* [...normalDirectories, ...directoriesWithExtensions,
\*  ...(FOLLOWDOT ? [...dotDirectories, ...UUIDDirectories] : [])]
WhichDirectories(b) ==
    b.normalDirectories \o b.directoriesWithExtensions
    \o (IF FOLLOWDOT THEN b.dotDirectories \o b.UUIDDirectories ELSE <<>>)

LoopDirectoriesIdentifiedTooMutant(dirents, identified, b) ==
    IF Len(dirents) > 0 THEN WhichDirectories(b) ELSE <<>>

\* the directories the loop of processDirents runs over: the loop is inside
\* if (dirents.length > 0) and if (!identified)
LoopDirectories(dirents, identified, b) ==
    IF Len(dirents) > 0 /\ ~identified THEN WhichDirectories(b) ELSE <<>>

DepthAllowsInclusiveMutant(depth) == depth <= MAXDEPTH

\* if (depth < MAXDEPTH), inside the loop
DepthAllows(depth) == depth < MAXDEPTH

\* the arguments of autoIdentify, by the name of the parameter
Haystacks(b) ==
    [ normalDirectories |-> b.normalDirectories,
      dotDirectories    |-> b.dotDirectories,
      dirExtensions     |-> DirExtensions(b.directoriesWithExtensions),
      normalFiles       |-> b.normalFiles,
      dotFiles          |-> b.dotFiles,
      fileExtensions    |-> FileExtensions(b.normalFiles),
      symbolicLinks     |-> b.symbolicLinks ]

IdentifiedByAnswersOnlyMutant(answers, foundCollection) == answers # <<>>

\* let identified = false; if (answers.length) identified = true; else if
\* (foundCollection !== undefined) identified = true
Identified(answers, foundCollection) ==
    answers # <<>> \/ foundCollection # <<>>

\* processDirents(depth, filename, dirents) up to its loop: the frame of the
\* call, with its two extension tables and with directoryInfo as it is when
\* the loop starts
processDirents(depth, filename, dirents) ==
    LET b               == Buckets(dirents)
        fileExtensions  == FileExtensions(b.normalFiles)
        fileextObj      == countArrayFieldsToObject(fileExtensions, TRUE)
        answers         == IF Len(dirents) > 0 THEN autoIdentify(Haystacks(b))
                           ELSE <<>>
        foundCollection == IF Len(dirents) > 0 /\ answers = <<>>
                           THEN checkForCollections(fileextObj, fileExtensions)
                           ELSE <<>>
        identified      == Identified(answers, foundCollection)
    IN  [ depth    |-> depth,
          filename |-> filename,
          dirents  |-> dirents,
          directoryInfo |->
            [ DirectoryInfo(filename, "Directory", identified, Undefined)
              EXCEPT
                !.identificationFailures = b.shouldBeEmpty,
                !.answers = answers,
                !.collections = foundCollection,
                !.additionalInfo =
                    IF Len(dirents) > 0
                    THEN checkAdditionalNotes(b.dotDirectories, b.normalFiles,
                                              b.dotFiles)
                    ELSE <<>>,
                !.verboseSummary =
                    IF Len(dirents) > 0 /\ ~identified /\ VERBOSE
                    THEN "set" ELSE Undefined ],
          fileextObj |-> fileextObj,
          dirextObj  |-> countArrayFieldsToObject(
                            DirExtensions(b.directoriesWithExtensions), FALSE),
          whichDirectories |-> LoopDirectories(dirents, identified, b),
          i |-> 0 ]

\* ---------------------------------------------------------------- file system

\* the listings of at most n entries of a universe, no name twice, in every
\* order in which readdir may return them
ListingsOf(universe, n) ==
    { q \in UNION { [1..k -> universe] : k \in 0..n } :
        \A i, j \in DOMAIN q : i # j => q[i].name # q[j].name }

\* the directories a listing shows (of the dirents of readdir, or of the
\* DirentStats made of them)
NumDirs(listing) ==
    Cardinality({ i \in 1..Len(listing) :
        IF "type" \in DOMAIN listing[i] THEN listing[i].type = "dir"
        ELSE listing[i].isDirectory })

UUID32 == [i \in 1..32 |-> IF i % 2 = 0 THEN "a" ELSE "0"]

UUID36 ==
    [i \in 1..36 |-> IF i \in {9, 14, 19, 24} THEN "-"
                     ELSE IF i % 2 = 0 THEN "F" ELSE "9"]

\* the entries of the directories of the traversal specification: a
\* directory for each of the four directory buckets, and the file that makes
\* a directory a "Go module"
FsEntries ==
    { RawDirent(S("src"), "dir", "ok", 0),
      RawDirent(S("pkg.d"), "dir", "ok", 0),
      RawDirent(S(".git"), "dir", "ok", 0),
      RawDirent(UUID32, "dir", "ok", 0),
      RawDirent(S("go.mod"), "file", "ok", 1) }

FsListings == ListingsOf(FsEntries, MaxEntries)

\* the entries of the directories of the traversal specification that looks
\* at identified directories: "Rust project" is Cargo.toml, Cargo.lock and
\* src; two .toml files are a collection
ProjectEntries ==
    { RawDirent(S("src"), "dir", "ok", 0),
      RawDirent(S("Cargo.toml"), "file", "ok", 1),
      RawDirent(S("Cargo.lock"), "file", "ok", 0),
      RawDirent(S("b.toml"), "file", "ok", 1) }

ProjectListings == ListingsOf(ProjectEntries, MaxEntries)

\* what fsp.lstat(filename) answers in processFilename: a root argument may be
\* anything or fail; a path that its parent's listing showed as a directory is
\* a directory, or fails when the parent cannot be searched
LstatAnswers(isRoot) ==
    IF isRoot THEN {"dir", "file", "symlink", "other", "ENOENT", "EACCES"}
    ELSE {"dir", "EACCES"}

Affordable(listing) == dirsLeft < 0 \/ NumDirs(listing) <= dirsLeft

\* ---------------------------------------------------------------- processFilename

\* processFilename(depth, filename) when it returns a result at once: the
\* results under the answers the file system may give
Outcomes(depth, filename, isRoot) ==
    { DirectoryInfo(filename, "File", TRUE, Undefined) :
      s \in LstatAnswers(isRoot) \cap {"file"} }
    \cup
    { DirectoryInfo(filename, "SymbolicLink", TRUE, Undefined) :
      s \in LstatAnswers(isRoot) \cap {"symlink"} }
    \cup
    { DirectoryInfo(filename, "Unknown", FALSE, Undefined) :
      s \in LstatAnswers(isRoot) \cap {"other"} }
    \cup
    \* lstat throws
    { DirectoryInfo(filename, "Error", FALSE, s) :
      s \in LstatAnswers(isRoot) \cap {"ENOENT", "EACCES"} }
    \cup
    \* a directory whose readdir throws: readdirAndStat rethrows
    { DirectoryInfo(filename, "Error", FALSE, "EACCES") :
      s \in LstatAnswers(isRoot) \cap {"dir"} }

ReceiveDropErrorsMutant(stk, res) ==
    IF stk = <<>>
    THEN /\ results' = IF res.kind = "Error" THEN results
                       ELSE Append(results, res)
         /\ mi' = mi + 1
         /\ stack' = stk
    ELSE /\ stack' = [stk EXCEPT ![Len(stk)].directoryInfo.directoryInfos =
                                        IF res.kind = "Error" THEN @
                                        ELSE Append(@, res),
                                 ![Len(stk)].i = @ + 1]
         /\ UNCHANGED << results, mi >>

\* the caller receives the result of a processFilename call: main pushes it to
\* results, the loop of processDirents to directoryInfo.directoryInfos; both
\* then move to the next element
Receive(stk, res) ==
    IF stk = <<>>
    THEN /\ results' = Append(results, res)
         /\ mi' = mi + 1
         /\ stack' = stk
    ELSE /\ stack' = [stk EXCEPT ![Len(stk)].directoryInfo.directoryInfos =
                                        Append(@, res),
                                 ![Len(stk)].i = @ + 1]
         /\ UNCHANGED << results, mi >>

Spend(n) == dirsLeft' = IF dirsLeft < 0 THEN dirsLeft ELSE dirsLeft - n

\* ---------------------------------------------------------------- actions

\* main: let args = processCommandline(process.argv); let results = []
ProcessCommandline ==
    /\ pc = "start"
    /\ LET c == processCommandline(argv)
       IN  /\ args' = c.args
           /\ MAXDEPTH' = c.MAXDEPTH
           /\ VERBOSE' = c.VERBOSE
           /\ FOLLOWDOT' = c.FOLLOWDOT
    /\ pc' = "main"
    /\ mi' = 0
    /\ results' = <<>>
    /\ UNCHANGED << argv, stack, dirsLeft >>

\* processFilename(depth, filename), called by the caller whose frames are
\* stk: it returns a result at once, or readdirAndStat lists a directory and
\* processDirents starts on it; listed keeps what readdir returned
processFilename(stk, depth, filename, isRoot, listings, racing) ==
    \/ /\ \E res \in Outcomes(depth, filename, isRoot) : Receive(stk, res)
       /\ Spend(0)
    \/ /\ "dir" \in LstatAnswers(isRoot)
       /\ \E veryRawDirents \in listings :
            /\ Affordable(veryRawDirents)
            /\ \E completion \in CompletionOrders(racing, Len(veryRawDirents)) :
                 LET direntstats == readdirAndStat(veryRawDirents, completion)
                 IN  /\ stack' = Append(stk,
                            processDirents(depth, filename, direntstats) @@
                            [ listed |-> { veryRawDirents[k] :
                                           k \in 1..Len(veryRawDirents) } ])
                     /\ Spend(NumDirs(direntstats))
       /\ UNCHANGED << results, mi >>

\* main's loop: results.push(await processFilename(0, args[i]))
MainCall(listings, racing) ==
    /\ pc = "main"
    /\ stack = <<>>
    /\ mi < Len(args)
    /\ processFilename(<<>>, 0, << args[mi + 1] >>, TRUE, listings, racing)
    /\ UNCHANGED << argv, MAXDEPTH, VERBOSE, FOLLOWDOT, pc, args >>

Top == stack[Len(stack)]

\* the loop of processDirents, when depth < MAXDEPTH:
\* res = await processFilename(depth + 1, childdirname)
LoopCall(listings, racing) ==
    /\ stack # <<>>
    /\ Top.i < Len(Top.whichDirectories)
    /\ DepthAllows(Top.depth)
    /\ processFilename(stack, Top.depth + 1,
                       PathJoin(Top.filename, Top.whichDirectories[Top.i + 1]),
                       FALSE, listings, racing)
    /\ UNCHANGED << argv, MAXDEPTH, VERBOSE, FOLLOWDOT, pc, args >>

LoopSkipStuckMutant ==
    /\ stack # <<>>
    /\ Top.i < Len(Top.whichDirectories)
    /\ ~DepthAllows(Top.depth)
    /\ UNCHANGED vars

\* the loop of processDirents, when depth < MAXDEPTH is false: ++i
LoopSkip ==
    /\ stack # <<>>
    /\ Top.i < Len(Top.whichDirectories)
    /\ ~DepthAllows(Top.depth)
    /\ stack' = [stack EXCEPT ![Len(stack)].i = @ + 1]
    /\ UNCHANGED << argv, MAXDEPTH, VERBOSE, FOLLOWDOT, pc, args, mi, results,
                    dirsLeft >>

ReturnBeforeLoopEndsMutant ==
    /\ stack # <<>>
    /\ Receive(SubSeq(stack, 1, Len(stack) - 1), Top.directoryInfo)
    /\ UNCHANGED << argv, MAXDEPTH, VERBOSE, FOLLOWDOT, pc, args, dirsLeft >>

\* the loop of processDirents has ended: return Promise.resolve(directoryInfo)
Return ==
    /\ stack # <<>>
    /\ Top.i = Len(Top.whichDirectories)
    /\ Receive(SubSeq(stack, 1, Len(stack) - 1), Top.directoryInfo)
    /\ UNCHANGED << argv, MAXDEPTH, VERBOSE, FOLLOWDOT, pc, args, dirsLeft >>

\* main's loop has ended: printResults(results)
Finish ==
    /\ pc = "main"
    /\ stack = <<>>
    /\ mi = Len(args)
    /\ pc' = "done"
    /\ UNCHANGED << argv, MAXDEPTH, VERBOSE, FOLLOWDOT, args, mi, results,
                    stack, dirsLeft >>

\* ---------------------------------------------------------------- traversal

Node == S("node")
Script == S("dirsniff.js")

\* the command lines of the traversal specification: every choice of -m and
\* -d with one root, two roots with the defaults, a malformed -m with -v, and
\* a negative depth
ArgvChoices ==
    { << Node, Script >> \o m \o d \o << S("r1") >> :
        m \in { <<>>, << S("-m=0") >>, << S("-m=2") >> },
        d \in { <<>>, << S("-d") >> } }
    \cup
    { << Node, Script, S("r1"), S("r2") >>,
      << Node, Script, S("-m=2x"), S("-v"), S("r1") >>,
      << Node, Script, S("-m=-1"), S("r1") >> }

\* the state after the module's top-level declarations have run
InitWith(choices, budget) ==
    /\ argv \in choices
    /\ MAXDEPTH = 1
    /\ VERBOSE = FALSE
    /\ FOLLOWDOT = FALSE
    /\ pc = "start"
    /\ args = <<>>
    /\ mi = 0
    /\ results = <<>>
    /\ stack = <<>>
    /\ dirsLeft = budget

Init == InitWith(ArgvChoices, MaxFsDirs)

Next ==
    \/ ProcessCommandline
    \/ MainCall(FsListings, FALSE)
    \/ LoopCall(FsListings, FALSE)
    \/ LoopSkip
    \/ Return
    \/ Finish

Spec == Init /\ [][Next]_vars

\* the event loop resumes main, processFilename or processDirents when the
\* promise it awaits is settled, and the promises of fsp settle: a step that
\* can be taken is taken
SpecFair == Init /\ [][Next]_vars /\ WF_vars(Next)

NextProject ==
    \/ ProcessCommandline
    \/ MainCall(ProjectListings, FALSE)
    \/ LoopCall(ProjectListings, FALSE)
    \/ LoopSkip
    \/ Return
    \/ Finish

SpecProject == Init /\ [][NextProject]_vars

\* ---------------------------------------------------------------- one directory
\* The specifications below run the same program on one root directory whose
\* listing is drawn from a family of inputs; the directories below the root
\* are empty or unreadable.

EmptyListings == { <<>> }

DirArgvChoices ==
    { << Node, Script, S("root") >>,
      << Node, Script, S("-m=0"), S("-d"), S("root") >> }

InitDir == InitWith(DirArgvChoices, -1)

NextDir(listings, racing) ==
    \/ ProcessCommandline
    \/ MainCall(listings, racing)
    \/ LoopCall(EmptyListings, racing)
    \/ LoopSkip
    \/ Return
    \/ Finish

\* ---- entries of every type under names of every shape

\* entries in one listing of the partition specification
MaxPartitionEntries == 2

NearUUID == SubSeq(UUID32, 1, 31)

PartitionNames ==
    { S("f"), S(".f"), S("a.txt"), S(".a.b"), S("a.b"), S("src"),
      UUID32, UUID36, NearUUID }

PartitionEntries ==
    { RawDirent(n, k[1], k[2], 0) :
        n \in PartitionNames,
        k \in { << "file", "ok" >>, << "file", "ENOENT" >>, << "dir", "ok" >>,
                << "symlink", "ok" >>, << "other", "ok" >> } }

PartitionListings == ListingsOf(PartitionEntries, MaxPartitionEntries)

NextPartition == NextDir(PartitionListings, FALSE)

SpecPartition == InitDir /\ [][NextPartition]_vars

\* ---- the entries the signatures of the table ask for

\* signatures whose entries one listing of the signature specification joins
MaxSignatures == 2

\* an entry that puts needle into the haystack of a step
EntryFor(haystack, needle) ==
    CASE haystack \in {"normalFiles", "dotFiles"} ->
            RawDirent(needle, "file", "ok", 1)
      [] haystack \in {"normalDirectories", "dotDirectories"} ->
            RawDirent(needle, "dir", "ok", 0)
      [] haystack = "symbolicLinks" ->
            RawDirent(needle, "symlink", "ok", 0)
      [] haystack = "fileExtensions" ->
            RawDirent(S("main") \o needle, "file", "ok", 1)
      [] haystack = "dirExtensions" ->
            RawDirent(S("main") \o needle, "dir", "ok", 0)

RECURSIVE StepsEntries(_, _)
StepsEntries(steps, k) ==
    IF k > Len(steps) THEN <<>>
    ELSE [n \in 1..Len(steps[k].needles) |->
            EntryFor(steps[k].haystack, steps[k].needles[n])]
         \o StepsEntries(steps, k + 1)

RECURSIVE JoinEntries(_, _)
JoinEntries(sigs, k) ==
    IF k > Len(sigs) THEN <<>>
    ELSE StepsEntries(table[sigs[k]].steps, 1) \o JoinEntries(sigs, k + 1)

RECURSIVE DropRepeatedNames(_, _)
DropRepeatedNames(listing, seen) ==
    IF listing = <<>> THEN <<>>
    ELSE IF Head(listing).name \in seen
    THEN DropRepeatedNames(Tail(listing), seen)
    ELSE << Head(listing) >>
         \o DropRepeatedNames(Tail(listing), seen \cup { Head(listing).name })

\* the listing that holds what every step of the chosen signatures asks for
SignatureListing(sigs) == DropRepeatedNames(JoinEntries(sigs, 1), {})

Without(listing, k) ==
    SubSeq(listing, 1, k - 1) \o SubSeq(listing, k + 1, Len(listing))

Retyped(listing, k) ==
    [listing EXCEPT ![k].type = IF @ = "dir" THEN "file" ELSE "dir"]

SignatureChoices ==
    { q \in UNION { [1..n -> 1..Len(table)] : n \in 1..MaxSignatures } :
        \A i, j \in DOMAIN q : i < j => q[i] < q[j] }

\* the listings of up to MaxSignatures signatures together, and those of one
\* signature with one entry missing or of the other type
SignatureListings ==
    { SignatureListing(q) : q \in SignatureChoices }
    \cup
    UNION { { Without(SignatureListing(<< s >>), k) :
                k \in 1..Len(SignatureListing(<< s >>)) }
            \cup
            { Retyped(SignatureListing(<< s >>), k) :
                k \in 1..Len(SignatureListing(<< s >>)) } :
            s \in 1..Len(table) }

NextSignature == NextDir(SignatureListings, FALSE)

SpecSignature == InitDir /\ [][NextSignature]_vars

\* ---- files of every extension the classes name

\* entries in one listing of the collection specification
MaxCollectionEntries == 2

RECURSIVE AllExts(_, _)
AllExts(classes, k) ==
    IF k > Len(classes) THEN {}
    ELSE { classes[k].exts[i] : i \in 1..Len(classes[k].exts) }
         \cup AllExts(classes, k + 1)

\* the files the collection rules are exercised on by name
ExampleFiles ==
    { S("image1.jpg"), S("image2.jpeg"), S("a.txt"), S("b.txt"),
      S("readme.txt"), S("a.JPG"), S("song.mp3"), S("Makefile"),
      S(".hidden.mp3") }

\* the example files, a file of every other extension a class names, and a
\* subdirectory
CollectionEntries ==
    { RawDirent(n, "file", "ok", 1) : n \in ExampleFiles }
    \cup
    { RawDirent(S("f") \o e, "file", "ok", 1) :
        e \in AllExts(extensions, 1) \ { extname(n) : n \in ExampleFiles } }
    \cup
    { RawDirent(S("sub"), "dir", "ok", 0) }

CollectionListings == ListingsOf(CollectionEntries, MaxCollectionEntries)

NextCollection == NextDir(CollectionListings, FALSE)

SpecCollection == InitDir /\ [][NextCollection]_vars

\* ---------------------------------------------------------------- properties

\* the pending processDirents calls
Frames == { stack[k] : k \in 1..Len(stack) }

RECURSIVE NodesOf(_)
NodesOf(info) ==
    { info } \cup UNION { NodesOf(info.directoryInfos[k]) :
                          k \in 1..Len(info.directoryInfos) }

\* every result there is: in main's results, in a pending call's
\* directoryInfo, or below one of them
AllNodes ==
    UNION { NodesOf(results[k]) : k \in 1..Len(results) }
    \cup UNION { NodesOf(f.directoryInfo) : f \in Frames }

RECURSIVE Height(_)
Height(info) ==
    IF info.directoryInfos = <<>> THEN 0
    ELSE 1 + (CHOOSE h \in { Height(info.directoryInfos[k]) :
                             k \in 1..Len(info.directoryInfos) } :
                \A k \in 1..Len(info.directoryInfos) :
                    Height(info.directoryInfos[k]) <= h)

Elements(seq) == { seq[i] : i \in 1..Len(seq) }

LoopEnded(f) == f.i = Len(f.whichDirectories)

IsDir(d) == d.statError = Undefined /\ d.isDirectory

IsNormalFile(d) ==
    d.statError = Undefined /\ d.isFile /\ ~FirstCharIs(d.name, ".")

\* the buckets of a call, the catch-all last
AllBuckets(b) ==
    << b.brokenEntries, b.symbolicLinks, b.unknownEntries, b.dotFiles,
       b.normalFiles, b.dotDirectories, b.directoriesWithExtensions,
       b.UUIDDirectories, b.normalDirectories, b.shouldBeEmpty >>

\* C1: every entry of a listing is in exactly one of the nine ordered buckets,
\* and the catch-all bucket (identificationFailures) is empty
C1_PartitionCompleteness ==
    /\ \A f \in Frames :
        LET all == AllBuckets(Buckets(f.dirents))
        IN  /\ \A k \in 1..Len(f.dirents) :
                Cardinality({ p \in (1..9) \X (1..Len(f.dirents)) :
                                /\ p[2] <= Len(all[p[1]])
                                /\ all[p[1]][p[2]] = f.dirents[k].name }) = 1
            /\ all[10] = <<>>
    /\ \A n \in AllNodes : n.identificationFailures = <<>>

\* a listing with a broken entry and an entry that is neither file, directory
\* nor link has been partitioned
C1_Witness ==
    \E f \in Frames :
        /\ \E k \in 1..Len(f.dirents) : f.dirents[k].statError # Undefined
        /\ \E k \in 1..Len(f.dirents) :
            /\ f.dirents[k].statError = Undefined
            /\ ~f.dirents[k].isFile
            /\ ~f.dirents[k].isDirectory
            /\ ~f.dirents[k].isSymbolicLink
        /\ f.directoryInfo.identificationFailures = <<>>

\* C2: an entry is in bucket i exactly when predicate i is the first in list
\* order that holds of it, and in the catch-all exactly when none holds; so a
\* stat-error entry is broken, a symlink is never unknown, a directory whose
\* name starts with '.' is a dot-directory, and a directory whose name
\* contains '.' is neither a UUID nor a normal directory
C2_FirstMatchWins ==
    \A f \in Frames :
        LET b   == Buckets(f.dirents)
            all == AllBuckets(b)
        IN  \A k \in 1..Len(f.dirents) :
              LET d == f.dirents[k]
              IN  /\ \A i \in 1..Len(all) :
                        (d.name \in Elements(all[i]))
                        <=> IF i <= Len(Tests)
                            THEN /\ Test(Tests[i], d)
                                 /\ \A j \in 1..(i - 1) : ~Test(Tests[j], d)
                            ELSE \A j \in 1..Len(Tests) : ~Test(Tests[j], d)
                  /\ d.statError # Undefined
                        => d.name \in Elements(b.brokenEntries)
                  /\ d.isSymbolicLink
                        => d.name \notin Elements(b.unknownEntries)
                  /\ d.statError = Undefined /\ d.isSymbolicLink
                        => d.name \in Elements(b.symbolicLinks)
                  /\ IsDir(d) /\ FirstCharIs(d.name, ".")
                        => /\ d.name \in Elements(b.dotDirectories)
                           /\ d.name \notin Elements(b.directoriesWithExtensions)
                  /\ IsDir(d) /\ StrIncludes(d.name, ".")
                        => /\ d.name \notin Elements(b.UUIDDirectories)
                           /\ d.name \notin Elements(b.normalDirectories)

\* a listing with the directory .a.b and a broken entry has been partitioned
C2_Witness ==
    \E f \in Frames :
        /\ \E k \in 1..Len(f.dirents) :
            /\ f.dirents[k].name = S(".a.b")
            /\ IsDir(f.dirents[k])
        /\ S(".a.b") \in Elements(Buckets(f.dirents).dotDirectories)
        /\ Buckets(f.dirents).brokenEntries # <<>>

\* a signature matches when every step's test passes against its haystack
Matches(entry, h) ==
    \A s \in Elements(entry.steps) :
        CASE s.check = "includesAll" ->
                Elements(s.needles) \subseteq Elements(h[s.haystack])
          [] s.check = "includesAny" ->
                Elements(s.needles) \cap Elements(h[s.haystack]) # {}
          [] s.check = "includes" ->
                s.needles[1] \in Elements(h[s.haystack])

TableIndex(name) == CHOOSE k \in 1..Len(table) : table[k].name = name

\* C3: the answers of a directory are the names of the signatures all of whose
\* steps pass, each once, in table order; matching does not stop at the first,
\* so go.mod and __init__.py together give "Go module" and "Python package"
C3_AllMatchingSignatures ==
    \A f \in Frames :
        Len(f.dirents) > 0 =>
            LET h        == Haystacks(Buckets(f.dirents))
                answers  == f.directoryInfo.answers
                matching == { k \in 1..Len(table) : Matches(table[k], h) }
            IN  /\ Elements(answers) = { table[k].name : k \in matching }
                /\ Len(answers) = Cardinality(matching)
                /\ \A i, j \in 1..Len(answers) :
                        i < j => TableIndex(answers[i]) < TableIndex(answers[j])
                /\ { S("go.mod"), S("__init__.py") }
                        \subseteq Elements(h.normalFiles)
                   => { "Go module", "Python package" } \subseteq Elements(answers)

\* a directory that holds go.mod and __init__.py has both answers
C3_Witness ==
    \E f \in Frames :
        /\ \E k \in 1..Len(f.dirents) :
            f.dirents[k].name = S("go.mod") /\ f.dirents[k].isFile
        /\ f.directoryInfo.answers = << "Go module", "Python package" >>

\* C4: a result whose identified flag is true has no child results, at any
\* depth and under any configuration, and the loop of an identified
\* directory runs over nothing
C4_IdentifiedNeverRecurses ==
    /\ \A n \in AllNodes : n.identified => n.directoryInfos = <<>>
    /\ \A f \in Frames :
        f.directoryInfo.identified => f.whichDirectories = <<>>

\* Cargo.toml + Cargo.lock + src/ at a depth where recursion is allowed: the
\* directory is a "Rust project" and has no result for src/
C4_Witness ==
    \E f \in Frames :
        /\ { S("Cargo.toml"), S("Cargo.lock"), S("src") }
                \subseteq Elements(Names(f.dirents))
        /\ \E k \in 1..Len(f.dirents) :
            f.dirents[k].name = S("src") /\ IsDir(f.dirents[k])
        /\ DepthAllows(f.depth)
        /\ f.directoryInfo.identified
        /\ f.directoryInfo.answers = << "Rust project" >>
        /\ LoopEnded(f)
        /\ f.directoryInfo.directoryInfos = <<>>

\* C5: the roots are processed at depth 0 and each level of recursion adds 1;
\* a directory at depth = MAXDEPTH has no child results; and when
\* MAXDEPTH >= 0 no result lies deeper than MAXDEPTH
C5_DepthBound ==
    /\ \A k \in 1..Len(stack) : stack[k].depth = k - 1
    /\ \A f \in Frames :
        f.depth = MAXDEPTH => f.directoryInfo.directoryInfos = <<>>
    /\ MAXDEPTH >= 0 =>
        /\ \A f \in Frames : f.depth + Height(f.directoryInfo) <= MAXDEPTH
        /\ \A k \in 1..Len(results) : Height(results[k]) <= MAXDEPTH

\* with -m=2, an unidentified directory at depth 2 that holds directories has
\* ended its loop without child results
C5_Witness ==
    /\ MAXDEPTH = 2
    /\ \E f \in Frames :
        /\ f.depth = 2
        /\ ~f.directoryInfo.identified
        /\ f.whichDirectories # <<>>
        /\ LoopEnded(f)
        /\ f.directoryInfo.directoryInfos = <<>>

IsDotName(n) == FirstCharIs(n, ".")
IsExtensionName(n) == ~FirstCharIs(n, ".") /\ StrIncludes(n, ".")
IsUUIDName(n) == ~StrIncludes(n, ".") /\ UUIDRegexTest(n)
IsNormalName(n) == ~StrIncludes(n, ".") /\ ~UUIDRegexTest(n)

\* the names of the directories of a listing whose name is among names, in
\* the order of the listing
DirNames(dirents, names) ==
    Names(SelectSeq(dirents, LAMBDA d : IsDir(d) /\ d.name \in names))

\* the subdirectories a directory's children stand for, in order
Eligible(dirents) ==
    LET all == Elements(Names(dirents))
    IN  DirNames(dirents, { n \in all : IsNormalName(n) })
        \o DirNames(dirents, { n \in all : IsExtensionName(n) })
        \o (IF FOLLOWDOT
            THEN DirNames(dirents, { n \in all : IsDotName(n) })
                 \o DirNames(dirents, { n \in all : IsUUIDName(n) })
            ELSE <<>>)

InNameOrder(dirents) ==
    \A k, l \in 1..Len(dirents) :
        k < l => localeCompare(dirents[k].name, dirents[l].name) < 0

\* C6: the child results of an unidentified non-empty directory at
\* depth < MAXDEPTH are one per eligible subdirectory: the normal
\* directories, then those with extensions, then with -d the dot-directories,
\* then the UUID directories, each bucket in name order; while the loop runs
\* they are the first i of them, and at depth >= MAXDEPTH there are none
C6_ChildrenInBucketOrder ==
    \A f \in Frames :
        LET children == f.directoryInfo.directoryInfos
            eligible == Eligible(f.dirents)
        IN  /\ InNameOrder(f.dirents)
            /\ ~f.directoryInfo.identified /\ f.depth < MAXDEPTH
                => /\ Len(children) = f.i
                   /\ f.i <= Len(eligible)
                   /\ \A k \in 1..Len(children) :
                        children[k].name = PathJoin(f.filename, eligible[k])
                   /\ LoopEnded(f) => Len(children) = Len(eligible)
            /\ f.depth >= MAXDEPTH => children = <<>>

\* with -d, a directory's loop has ended with a child result for a normal
\* directory, then one for a directory with an extension, then one for a
\* dot-directory, the reverse of their order in the listing
C6_Witness ==
    \E f \in Frames :
        /\ FOLLOWDOT
        /\ ~f.directoryInfo.identified
        /\ f.depth < MAXDEPTH
        /\ LoopEnded(f)
        /\ Names(f.dirents) = << S(".git"), S("pkg.d"), S("src") >>
        /\ Len(f.directoryInfo.directoryInfos) = 3
        /\ f.directoryInfo.directoryInfos[1].name = PathJoin(f.filename, S("src"))
        /\ f.directoryInfo.directoryInfos[2].name = PathJoin(f.filename, S("pkg.d"))
        /\ f.directoryInfo.directoryInfos[3].name = PathJoin(f.filename, S(".git"))

BaseName(filename) == filename[Len(filename)]

\* C7: without -d no result anywhere has a child result for a dot-directory
\* or a UUID-named directory; with -d every such subdirectory of an
\* unidentified directory at depth < MAXDEPTH has one when the loop has ended
C7_DotDirectoriesOnlyWithFollowDot ==
    /\ ~FOLLOWDOT =>
        \A n \in AllNodes :
            \A k \in 1..Len(n.directoryInfos) :
                /\ ~IsDotName(BaseName(n.directoryInfos[k].name))
                /\ ~UUIDRegexTest(BaseName(n.directoryInfos[k].name))
    /\ FOLLOWDOT =>
        \A f \in Frames :
            ~f.directoryInfo.identified /\ f.depth < MAXDEPTH /\ LoopEnded(f)
            => \A k \in 1..Len(f.dirents) :
                    IsDir(f.dirents[k])
                    /\ (IsDotName(f.dirents[k].name)
                        \/ UUIDRegexTest(f.dirents[k].name))
                    => \E c \in 1..Len(f.directoryInfo.directoryInfos) :
                        f.directoryInfo.directoryInfos[c].name
                            = PathJoin(f.filename, f.dirents[k].name)

\* without -d, a directory that holds src and .git has ended its loop with a
\* child result for src alone
C7_Witness ==
    /\ pc = "main"
    /\ ~FOLLOWDOT
    /\ \E f \in Frames :
        /\ { S("src"), S(".git") } \subseteq Elements(Names(f.dirents))
        /\ f.depth < MAXDEPTH
        /\ LoopEnded(f)
        /\ Len(f.directoryInfo.directoryInfos) = 1
        /\ f.directoryInfo.directoryInfos[1].name = PathJoin(f.filename, S("src"))

\* the case-folded extensions of the normal files of a listing whose name
\* contains '.', and how many files carry one of them
ExtensionFiles(dirents) ==
    { k \in 1..Len(dirents) :
        IsNormalFile(dirents[k]) /\ StrIncludes(dirents[k].name, ".") }

FoldedExt(d) == toLowerCase(extname(d.name))

DistinctExts(dirents) ==
    { FoldedExt(dirents[k]) : k \in ExtensionFiles(dirents) }

ExtCount(dirents, ext) ==
    Cardinality({ k \in ExtensionFiles(dirents) : FoldedExt(dirents[k]) = ext })

\* the classes that hold every one of a set of extensions
Holding(exts) ==
    { c \in 1..Len(extensions) : exts \subseteq Elements(extensions[c].exts) }

First(set) == CHOOSE c \in set : \A c2 \in set : c <= c2

NoSignature(f) == Len(f.dirents) > 0 /\ f.directoryInfo.answers = <<>>

OnlyFiles(f, names) ==
    /\ Elements(Names(f.dirents)) = names
    /\ \A k \in 1..Len(f.dirents) : IsNormalFile(f.dirents[k])

\* C8: with no signature and two or more distinct extensions, the collection
\* reported is the first class in declaration order that holds every
\* extension present, and none when no class does; the class reported is never
\* a strict superset of another class that holds them all, and image1.jpg +
\* image2.jpeg is "a collection of 2 jpeg files"
C8_CollectionPrecedence ==
    \A f \in Frames :
        LET exts    == DistinctExts(f.dirents)
            found   == f.directoryInfo.collections
            holding == Holding(exts)
        IN  /\ NoSignature(f) /\ Cardinality(exts) >= 2
                => IF holding = {} THEN found = <<>>
                   ELSE /\ found = CollectionOf(Cardinality(ExtensionFiles(f.dirents)),
                                                extensions[First(holding)].name)
                        /\ \A c \in holding :
                            ~ /\ Elements(extensions[c].exts)
                                    \subseteq Elements(extensions[First(holding)].exts)
                              /\ Elements(extensions[c].exts)
                                    # Elements(extensions[First(holding)].exts)
            /\ OnlyFiles(f, { S("image1.jpg"), S("image2.jpeg") })
                => found = CollectionOf(2, S("jpeg"))

\* the directory of image1.jpg and image2.jpeg has been reported as a
\* collection of 2 jpeg files
C8_Witness ==
    \E f \in Frames :
        /\ OnlyFiles(f, { S("image1.jpg"), S("image2.jpeg") })
        /\ f.directoryInfo.identified
        /\ f.directoryInfo.collections = CollectionOf(2, S("jpeg"))

\* C9: with no signature and exactly one distinct extension among the normal
\* files, the directory is "a collection of N <ext> files" exactly when the
\* count N of that extension exceeds 1; readme.txt alone is no collection,
\* and a.txt + b.txt is a collection of 2 .txt files
C9_SingleExtensionCollection ==
    \A f \in Frames :
        LET exts  == DistinctExts(f.dirents)
            found == f.directoryInfo.collections
        IN  /\ NoSignature(f) /\ Cardinality(exts) = 1
                => LET ext == CHOOSE e \in exts : TRUE
                       n   == ExtCount(f.dirents, ext)
                   IN  /\ n > 1 => found = CollectionOf(n, ext)
                       /\ n <= 1 => found = <<>>
            /\ OnlyFiles(f, { S("readme.txt") }) => found = <<>>
            /\ OnlyFiles(f, { S("a.txt"), S("b.txt") })
                => found = CollectionOf(2, S(".txt"))

\* the directory of a.txt and b.txt has been reported as a collection of 2
\* .txt files
C9_Witness ==
    \E f \in Frames :
        /\ OnlyFiles(f, { S("a.txt"), S("b.txt") })
        /\ f.directoryInfo.identified
        /\ f.directoryInfo.collections = CollectionOf(2, S(".txt"))

\* whether the collection found is the report of the first class that holds
\* every extension of the listing, or nothing when there is no such class
ClassReport(f) ==
    LET holding == Holding(DistinctExts(f.dirents))
        found   == f.directoryInfo.collections
    IN  IF holding = {} THEN found = <<>>
        ELSE found = CollectionOf(Cardinality(ExtensionFiles(f.dirents)),
                                  extensions[First(holding)].name)

\* C10 as stated: whenever rule 1 gives no report and at least one extension
\* occurs, the first class that holds every extension present is reported,
\* also for a single extension-bearing file
C10_AsStated ==
    \A f \in Frames :
        LET exts == DistinctExts(f.dirents)
        IN  /\ NoSignature(f)
            /\ exts # {}
            /\ ~(Cardinality(exts) = 1
                 /\ \E e \in exts : ExtCount(f.dirents, e) > 1)
            => ClassReport(f)

\* C10 as amended: the class list is tested when two or more distinct
\* extensions occur, and then the first class that holds them all is
\* reported; with exactly one distinct extension the class list is never
\* tested, so a single extension-bearing file is no collection even when its
\* extension belongs to a class
C10_ClassTestNeedsTwoExtensions ==
    \A f \in Frames :
        LET exts == DistinctExts(f.dirents)
        IN  /\ NoSignature(f) /\ Cardinality(exts) >= 2 => ClassReport(f)
            /\ (/\ NoSignature(f)
                /\ Cardinality(exts) = 1
                /\ \A e \in exts : ExtCount(f.dirents, e) = 1)
               => f.directoryInfo.collections = <<>>

\* the directory whose only file is song.mp3, an extension of the class
\* "audio", has been examined and is no collection
C10_Witness ==
    \E f \in Frames :
        /\ OnlyFiles(f, { S("song.mp3") })
        /\ Holding(DistinctExts(f.dirents)) # {}
        /\ ~f.directoryInfo.identified
        /\ f.directoryInfo.collections = <<>>

\* ---------------------------------------------------------------- counts

\* entries in one listing of the file-count specification
MaxCountEntries == 3

\* the example files and a subdirectory
CountEntries ==
    { RawDirent(n, "file", "ok", 1) : n \in ExampleFiles }
    \cup
    { RawDirent(S("sub"), "dir", "ok", 0) }

CountListings == ListingsOf(CountEntries, MaxCountEntries)

NextCount == NextDir(CountListings, FALSE)

SpecCount == InitDir /\ [][NextCount]_vars

\* the files of a listing, dot-files and extension-less files included
TotalFiles(dirents) ==
    Cardinality({ k \in 1..Len(dirents) :
                    dirents[k].statError = Undefined /\ dirents[k].isFile })

\* a class-based report was made for the directory
ClassBased(f) ==
    /\ f.directoryInfo.collections # <<>>
    /\ Cardinality(DistinctExts(f.dirents)) >= 2

\* C11 as stated: in a class-based report the number N is the total number
\* of files of the directory, files without an extension and dot-files
\* included
C11_AsStated ==
    \A f \in Frames :
        ClassBased(f) => f.directoryInfo.collections[1] = TotalFiles(f.dirents)

\* C11 as amended: in a class-based report the number N is the number of
\* normal (non-dot) files whose name contains '.', however many distinct
\* extensions they carry; it is the total number of files exactly when the
\* directory holds no dot-file and no file without '.' in its name
C11_CountsExtensionBearingFiles ==
    \A f \in Frames :
        ClassBased(f) =>
            LET n == f.directoryInfo.collections[1]
            IN  /\ n = Cardinality(ExtensionFiles(f.dirents))
                /\ n <= TotalFiles(f.dirents)
                /\ (n = TotalFiles(f.dirents))
                   <=> \A k \in 1..Len(f.dirents) :
                         f.dirents[k].isFile =>
                            /\ ~FirstCharIs(f.dirents[k].name, ".")
                            /\ StrIncludes(f.dirents[k].name, ".")

\* Makefile + image1.jpg + image2.jpeg has been reported as a collection of
\* 2 jpeg files, and image1.jpg + image2.jpeg + a.JPG as one of 3
C11_Witness ==
    \E f \in Frames :
        /\ OnlyFiles(f, { S("Makefile"), S("image1.jpg"), S("image2.jpeg") })
        /\ f.directoryInfo.collections = CollectionOf(2, S("jpeg"))

\* ---------------------------------------------------------------- empty

\* printResults, case EntryKind.Directory: what is printed between the
\* braces, before the child results
PrintedForDirectory(res) ==
    IF Len(res.directoryInfos) > 0
    THEN [ answers      |-> res.answers,
           collections  |-> res.collections,
           unidentified |-> ~res.identified,
           empty        |-> FALSE ]
    ELSE [ answers      |-> <<>>,
           collections  |-> <<>>,
           unidentified |-> FALSE,
           empty        |-> TRUE ]

\* C12 as stated: the result of a directory whose listing has no entries has
\* identified = true, the answer 'empty', and no child results
C12_AsStated ==
    \A f \in Frames :
        Len(f.dirents) = 0 =>
            /\ f.directoryInfo.identified
            /\ PrintedForDirectory(f.directoryInfo).empty
            /\ f.directoryInfo.directoryInfos = <<>>

\* ---------------------------------------------------------------- identified

\* C13: a directory result is identified exactly when autoIdentify returned
\* at least one signature name (some signature of the table matches the
\* directory) or checkForCollections returned a description; otherwise it is
\* unidentified
C13_IdentificationRule ==
    /\ \A n \in AllNodes :
        n.kind = "Directory" =>
            (n.identified <=> (n.answers # <<>> \/ n.collections # <<>>))
    /\ \A f \in Frames :
        Len(f.dirents) > 0 =>
            /\ f.directoryInfo.answers # <<>>
               <=> \E k \in 1..Len(table) :
                        Matches(table[k], Haystacks(Buckets(f.dirents)))
            /\ f.directoryInfo.identified
               <=> \/ \E k \in 1..Len(table) :
                        Matches(table[k], Haystacks(Buckets(f.dirents)))
                   \/ f.directoryInfo.collections # <<>>

\* below an unidentified, non-empty directory, a directory in which no
\* signature matches has been identified by its collection of files
C13_Witness ==
    \E f, g \in Frames :
        /\ Len(f.dirents) > 0
        /\ ~f.directoryInfo.identified
        /\ g.depth = f.depth + 1
        /\ g.directoryInfo.identified
        /\ g.directoryInfo.answers = <<>>
        /\ g.directoryInfo.collections # <<>>

\* ---------------------------------------------------------------- notes

\* entries in one listing of the notes specification
MaxNotesEntries == 3

\* the entries the notes look for, a file that bears the name of one of
\* them, a signature file and a subdirectory
NotesEntries ==
    { RawDirent(S(".git"), "dir", "ok", 0),
      RawDirent(S(".github"), "dir", "ok", 0),
      RawDirent(S("src"), "dir", "ok", 0),
      RawDirent(S("Icon\r"), "file", "ok", 0),
      RawDirent(S(".DS_Store"), "file", "ok", 1),
      RawDirent(S(".git"), "file", "ok", 1),
      RawDirent(S("go.mod"), "file", "ok", 1) }

NotesListings == ListingsOf(NotesEntries, MaxNotesEntries)

NextNotes == NextDir(NotesListings, FALSE)

SpecNotes == InitDir /\ [][NextNotes]_vars

HasDotDirectory(dirents, name) ==
    \E k \in 1..Len(dirents) : IsDir(dirents[k]) /\ dirents[k].name = name

HasFile(dirents, name) ==
    \E k \in 1..Len(dirents) :
        /\ dirents[k].statError = Undefined
        /\ dirents[k].isFile
        /\ dirents[k].name = name

\* the entries of a listing that no note looks for
WithoutNoted(dirents) ==
    SelectSeq(dirents,
              LAMBDA d : d.name \notin { S(".git"), S(".github"), S("Icon\r"),
                                         S(".DS_Store") })

\* C14: the notes of a directory hold the Git note exactly when it has a
\* dot-directory .git and none named .github, the GitHub note exactly when
\* it has both, and the Finder note exactly when it has a normal file
\* 'Icon\r' or a dot-file .DS_Store, each at most once; this is so for
\* identified and unidentified directories alike, and the identified flag,
\* the answers and the collection are what they are without the noted
\* entries, the child results one per eligible subdirectory
C14_NotesOrthogonal ==
    \A f \in Frames :
        LET notes == f.directoryInfo.additionalInfo
            git    == HasDotDirectory(f.dirents, S(".git"))
            github == HasDotDirectory(f.dirents, S(".github"))
            plain  == processDirents(f.depth, f.filename,
                                     WithoutNoted(f.dirents)).directoryInfo
        IN  /\ "GitRepository" \in Elements(notes) <=> (git /\ ~github)
            /\ "GitHubRepository" \in Elements(notes) <=> (git /\ github)
            /\ "MacFinderFiles" \in Elements(notes)
               <=> \/ HasFile(f.dirents, S("Icon\r"))
                   \/ HasFile(f.dirents, S(".DS_Store"))
            /\ Len(notes) = Cardinality(Elements(notes))
            /\ f.directoryInfo.identified
               <=> (f.directoryInfo.answers # <<>>
                    \/ f.directoryInfo.collections # <<>>)
            /\ f.directoryInfo.identified = plain.identified
            /\ f.directoryInfo.answers = plain.answers
            /\ f.directoryInfo.collections = plain.collections
            /\ LoopEnded(f) /\ ~f.directoryInfo.identified /\ f.depth < MAXDEPTH
               => Len(f.directoryInfo.directoryInfos) = Len(Eligible(f.dirents))

\* an identified directory (go.mod) with .git and .github carries the GitHub
\* note alone
C14_Witness ==
    \E f \in Frames :
        /\ Elements(Names(f.dirents)) = { S("go.mod"), S(".git"), S(".github") }
        /\ HasDotDirectory(f.dirents, S(".git"))
        /\ f.directoryInfo.identified
        /\ f.directoryInfo.additionalInfo = << "GitHubRepository" >>

\* ---------------------------------------------------------------- errors

IsErrorLeaf(n) ==
    /\ n.kind = "Error"
    /\ ~n.identified
    /\ n.error \in { "ENOENT", "EACCES" }
    /\ n.directoryInfos = <<>>
    /\ n.answers = <<>>
    /\ n.collections = <<>>

\* C15: a path whose lstat or readdir fails gets an Error leaf of its own,
\* unidentified and carrying the error code (ENOENT apart from the others),
\* and nothing else is lost: main holds one result per positional argument
\* handled so far, in argument order, and a directory's loop one child
\* result per candidate handled so far, in candidate order, whether or not
\* an earlier path failed
C15_ErrorIsolation ==
    /\ \A n \in AllNodes :
        /\ n.kind = "Error" => IsErrorLeaf(n)
        /\ n.kind # "Error" => n.error = Undefined
    /\ Len(results) = mi
    /\ \A k \in 1..Len(results) : results[k].name = << args[k] >>
    /\ pc = "done" => Len(results) = Len(args)
    /\ \A f \in Frames :
        ~f.directoryInfo.identified /\ f.depth < MAXDEPTH
        => /\ Len(f.directoryInfo.directoryInfos) = f.i
           /\ \A k \in 1..f.i :
                f.directoryInfo.directoryInfos[k].name
                    = PathJoin(f.filename, f.whichDirectories[k])

\* the first root does not exist and the second is a directory whose first
\* subdirectory cannot be read: the run has one Error leaf for the first
\* root, and the second root's result holds an Error leaf followed by the
\* result of its other subdirectory
C15_Witness ==
    /\ pc = "done"
    /\ Len(args) = 2
    /\ Len(results) = 2
    /\ results[1].kind = "Error"
    /\ results[1].error = "ENOENT"
    /\ results[2].kind = "Directory"
    /\ Len(results[2].directoryInfos) = 2
    /\ results[2].directoryInfos[1].kind = "Error"
    /\ results[2].directoryInfos[1].error = "EACCES"
    /\ results[2].directoryInfos[2].kind = "Directory"

\* ---- entries whose stat may fail, listed in any order, their stats racing

MaxStatEntries == 3

\* the listings of the stat specification: under each of two plain names and
\* of the two canonically equivalent spellings of one name, a file whose
\* lstat succeeds or fails, or a directory
StatListings ==
    ListingsOf({ RawDirent(n, k[1], k[2], 1) :
                   n \in { S("a"), S("B"), << "U+00E9" >>, << "e", "U+0301" >> },
                   k \in { << "file", "ok" >>, << "file", "ENOENT" >>,
                           << "dir", "ok" >> } },
               MaxStatEntries)

NextStat == NextDir(StatListings, TRUE)

SpecStat == InitDir /\ [][NextStat]_vars

\* C16: a failing lstat of a listed entry does not fail the directory: the
\* directory is processed with one entry for every name readdir returned; the
\* entry whose lstat failed carries the error code as statError and is in the
\* broken bucket and in no other; every other entry is in the bucket it is in
\* when the same entries are listed and no lstat fails
C16_StatFailureDegradesOneEntry ==
    \A f \in Frames :
        LET StatFails(d) == d.type = "file" /\ d.lstat # "ok"
            BucketsOf(name, b) ==
                { k \in 1..10 : name \in Elements(AllBuckets(b)[k]) }
            n == Cardinality(f.listed)
            healed == { [d EXCEPT !.lstat = "ok"] : d \in f.listed }
            without ==
                Buckets(readdirAndStat(
                    CHOOSE q \in [1..n -> healed] :
                        \A i, j \in 1..n : i # j => q[i] # q[j],
                    [i \in 1..n |-> i]))
            with == Buckets(f.dirents)
        IN  /\ f.directoryInfo.kind = "Directory"
            /\ Len(f.dirents) = n
            /\ \A d \in f.listed :
                /\ \E k \in 1..Len(f.dirents) :
                    /\ f.dirents[k].name = d.name
                    /\ f.dirents[k].statError
                         = IF StatFails(d) THEN d.lstat ELSE Undefined
                /\ IF StatFails(d)
                   THEN BucketsOf(d.name, with) = { 1 }
                   ELSE BucketsOf(d.name, with) = BucketsOf(d.name, without)

\* a directory of three entries is being processed: the lstat of its file
\* "a" failed with ENOENT and "a" is the one broken entry, its file named by
\* the accented letter is a normal file and its directory "B" a normal
\* directory
C16_Witness ==
    \E f \in Frames :
        LET b == Buckets(f.dirents)
        IN  /\ Cardinality(f.listed) = 3
            /\ RawDirent(S("a"), "file", "ENOENT", 1) \in f.listed
            /\ b.brokenEntries = << S("a") >>
            /\ b.normalFiles = << << "U+00E9" >> >>
            /\ b.normalDirectories = << S("B") >>

\* C17: the buckets of a directory, contents and internal order, depend on
\* the set of its entries alone: in whatever order readdir returned the
\* entries and in whatever order the lstat calls completed, the buckets are
\* those of the same entries listed in one fixed order with the stats
\* completing in the order they were started
C17_AsStated ==
    \A f \in Frames :
        LET n == Cardinality(f.listed)
        IN  Buckets(f.dirents)
              = Buckets(readdirAndStat(
                    CHOOSE q \in [1..n -> f.listed] :
                        \A i, j \in 1..n : i # j => q[i] # q[j],
                    [i \in 1..n |-> i]))

\* the part of C17 that holds: the buckets depend on the set of entries alone
\* when no two names compare equal under localeCompare, and the completion
\* order of the stats never matters: the DirentStats are in the order the
\* sort left the entries in
C17_OrderOfNamesThatDiffer ==
    \A f \in Frames :
        LET n == Cardinality(f.listed)
        IN  /\ (\A d, e \in f.listed :
                    d.name # e.name => localeCompare(d.name, e.name) # 0)
                => Buckets(f.dirents)
                     = Buckets(readdirAndStat(
                           CHOOSE q \in [1..n -> f.listed] :
                               \A i, j \in 1..n : i # j => q[i] # q[j],
                           [i \in 1..n |-> i]))
            /\ \A k \in 1..(Len(f.dirents) - 1) :
                localeCompare(f.dirents[k].name, f.dirents[k + 1].name) <= 0

\* a directory of three files is being processed, two of the names being the
\* two spellings of the accented letter
C17_Witness ==
    \E f \in Frames :
        /\ Cardinality(f.listed) = 3
        /\ Len(Buckets(f.dirents).normalFiles) = 3
        /\ \E d, e \in f.listed :
            d.name # e.name /\ localeCompare(d.name, e.name) = 0

\* ---- the order of the traversal

\* C18: the traversal is sequential and depth-first. At every moment the
\* pending processDirents calls form one chain: the first is the call for the
\* root argument main is at, all earlier roots having their results pushed,
\* and each further one is the call for the child its caller's loop is at; a
\* caller has the results of exactly the children before that one, in loop
\* order. A step starts at most one call, changes no call below the innermost
\* one, and hands a result to the caller (or to main) only when the loop of
\* the call that made it has ended and no call is pending inside it
C18_SequentialDepthFirst ==
    /\ [](/\ Len(results) = mi
          /\ stack # <<>> =>
                /\ pc = "main"
                /\ mi < Len(args)
                /\ stack[1].depth = 0
                /\ stack[1].filename = << args[mi + 1] >>
          /\ \A k \in 1..Len(stack) :
                LET f == stack[k]
                IN  /\ f.i <= Len(f.whichDirectories)
                    /\ Len(f.directoryInfo.directoryInfos)
                         = IF DepthAllows(f.depth) THEN f.i ELSE 0
                    /\ \A j \in 1..Len(f.directoryInfo.directoryInfos) :
                         f.directoryInfo.directoryInfos[j].name
                           = PathJoin(f.filename, f.whichDirectories[j])
                    /\ k < Len(stack) =>
                         /\ f.i < Len(f.whichDirectories)
                         /\ stack[k + 1].depth = f.depth + 1
                         /\ stack[k + 1].filename
                              = PathJoin(f.filename, f.whichDirectories[f.i + 1]))
    /\ [][/\ Len(stack') <= Len(stack) + 1
          /\ \A k \in 1..(Len(stack) - 1) :
                \/ k <= Len(stack') /\ stack'[k] = stack[k]
                \/ /\ k = Len(stack) - 1
                   /\ Len(stack') = k
                   /\ LoopEnded(Top)
                   /\ stack'[k] =
                        [stack[k] EXCEPT
                           !.directoryInfo.directoryInfos =
                               Append(@, Top.directoryInfo),
                           !.i = @ + 1]
          /\ results' # results =>
                /\ stack' = <<>>
                /\ \/ stack = <<>>
                   \/ /\ Len(stack) = 1
                      /\ LoopEnded(Top)
                      /\ results' = Append(results, Top.directoryInfo)]_vars

\* the root's loop is at its second subdirectory, whose call is pending: the
\* result of the first subdirectory is in place, with the result of that
\* subdirectory's own subdirectory inside it
C18_Witness ==
    /\ Len(stack) = 2
    /\ stack[1].i = 1
    /\ Len(stack[1].whichDirectories) = 2
    /\ Len(stack[1].directoryInfo.directoryInfos) = 1
    /\ stack[1].directoryInfo.directoryInfos[1].kind = "Directory"
    /\ Len(stack[1].directoryInfo.directoryInfos[1].directoryInfos) = 1
    /\ stack[1].directoryInfo.directoryInfos[1].directoryInfos[1].kind
         = "Directory"
    /\ stack[2].filename
         = PathJoin(stack[1].filename, stack[1].whichDirectories[2])

\* ---- termination

\* C19: the run completes. Under the fair specification main reaches
\* printResults, and it does so with one result for every root argument and
\* no call pending; a directory the loop of processDirents runs over is a
\* directory entry of the listing, never a symbolic link, and the loop never
\* runs past its end
C19_RunCompletes ==
    /\ <>(pc = "done")
    /\ [](/\ pc = "done" => Len(results) = Len(args) /\ stack = <<>>
          /\ \A f \in Frames :
                /\ f.i <= Len(f.whichDirectories)
                /\ \A j \in 1..Len(f.whichDirectories) :
                    \E k \in 1..Len(f.dirents) :
                        /\ f.dirents[k].name = f.whichDirectories[j]
                        /\ f.dirents[k].isDirectory
                        /\ ~f.dirents[k].isSymbolicLink)

\* the run has ended with results for two roots, the first a directory with
\* the result of a subdirectory inside, the second a failure
C19_Witness ==
    /\ pc = "done"
    /\ Len(args) = 2
    /\ Len(results) = 2
    /\ results[1].kind = "Directory"
    /\ Len(results[1].directoryInfos) = 1
    /\ results[2].kind = "Error"

\* ---- the command line

MaxOptions == 3

\* the command lines of the option specification: up to MaxOptions
\* arguments, each a well-formed or malformed option or a root path
OptionArgv ==
    { << Node, Script >> \o opts :
        opts \in UNION { [1..k -> { S("-m=0"), S("-m=2"), S("-m=2x"), S("-m="),
                                    S("-m=-1"), S("-m=1=2"), S("--m=3"),
                                    S("-n=3"), S("-m"), S("-v"), S("-d"),
                                    S("-"), S("m=3") }] : k \in 0..MaxOptions } }

NextOptions ==
    NextDir(ListingsOf({ RawDirent(S("sub"), "dir", "ok", 0) }, 1), FALSE)

SpecOptions == InitWith(OptionArgv, -1) /\ [][NextOptions]_vars

\* C20: once processCommandline has run, MAXDEPTH is the value of the last
\* argument of the form -m=N whose N is read by parseInt(N, 10) and by
\* Number(N) as one and the same number, and the default 1 when there is no
\* such argument (a malformed one changes nothing); and no root path begins
\* with "-"
C20_DepthOption ==
    pc # "start" =>
        LET N(a) == SubSeq(a, 4, Len(a))
            WellFormed(a) ==
                /\ Len(a) > 3
                /\ SubSeq(a, 1, 3) = S("-m=")
                /\ \A i \in 4..Len(a) : a[i] # "="
                /\ parseInt10(N(a)) # <<>>
                /\ parseInt10(N(a)) = NumberOf(N(a))
            valid == { i \in 3..Len(argv) : WellFormed(argv[i]) }
            last  == CHOOSE i \in valid : \A j \in valid : j <= i
        IN  /\ MAXDEPTH = IF valid = {} THEN 1
                          ELSE parseInt10(N(argv[last]))[1]
            /\ \A k \in 1..Len(args) : args[k] = <<>> \/ args[k][1] # "-"

\* processCommandline has run on "-m=2 -m=2x m=3": the malformed second
\* option left the depth of the first in place, and the one root path is the
\* argument that begins with no "-"
C20_Witness ==
    /\ pc = "main"
    /\ argv = << Node, Script, S("-m=2"), S("-m=2x"), S("m=3") >>
    /\ MAXDEPTH = 2
    /\ args = << S("m=3") >>

\* ---- listings that grow and shrink

MaxMonotoneEntries == 4

\* the listings of the monotonicity specification: up to MaxMonotoneEntries
\* entries, with what "D (DUB) project" (either of two files), "Go module"
\* (one file), "Rust project" (two files and a directory) and "Xcode
\* project" (a directory extension) ask for, and a directory named go.mod
NextMonotone ==
    NextDir(ListingsOf({ RawDirent(S("dub.json"), "file", "ok", 1),
                         RawDirent(S("dub.sdl"), "file", "ok", 1),
                         RawDirent(S("go.mod"), "file", "ok", 1),
                         RawDirent(S("go.mod"), "dir", "ok", 0),
                         RawDirent(S("Cargo.toml"), "file", "ok", 1),
                         RawDirent(S("Cargo.lock"), "file", "ok", 1),
                         RawDirent(S("src"), "dir", "ok", 0),
                         RawDirent(S("main.xcodeproj"), "dir", "ok", 0) },
                       MaxMonotoneEntries), FALSE)

SpecMonotone == InitDir /\ [][NextMonotone]_vars

\* C21: the signatures matched on a listing are matched on every listing
\* that holds it: for a directory's listing and each sub-listing of it, the
\* answers on the sub-listing are among the answers on the listing, so the
\* entries added to the sub-listing took no signature away; a signature not
\* matched on the sub-listing whose every step the listing satisfies is
\* among the listing's answers; and taking out the entry whose name a step
\* requires (a needle of an includesAll step, the first needle of an
\* includes step, the single needle of an includesAny step, looked for among
\* the names of files, directories or symbolic links) leaves a listing on
\* which the signature is not matched
C21_SignatureMonotonicity ==
    \A f \in Frames :
        LET L2 == f.dirents
            Sub(I) ==
                [j \in 1..Cardinality(I) |->
                    L2[CHOOSE i \in I : Cardinality({ k \in I : k < i }) = j - 1]]
            MatchedOn(listing) ==
                Elements(processDirents(f.depth, f.filename, listing)
                            .directoryInfo.answers)
            NamesLookedFor(s) ==
                IF s.haystack \in {"fileExtensions", "dirExtensions"} THEN {}
                ELSE CASE s.check = "includesAll" -> Elements(s.needles)
                       [] s.check = "includes"    -> { s.needles[1] }
                       [] s.check = "includesAny" ->
                            IF Len(s.needles) = 1 THEN { s.needles[1] } ELSE {}
        IN  /\ MatchedOn(L2) = Elements(f.directoryInfo.answers)
            /\ \A I \in SUBSET (1..Len(L2)) :
                LET onL1 == MatchedOn(Sub(I))
                IN  /\ onL1 \subseteq Elements(f.directoryInfo.answers)
                    /\ \A k \in 1..Len(table) :
                        /\ table[k].name \notin onL1
                        /\ Matches(table[k], Haystacks(Buckets(L2)))
                        => table[k].name \in Elements(f.directoryInfo.answers)
            /\ \A k \in 1..Len(L2) :
                LET onRest == MatchedOn(Without(L2, k))
                IN  \A t \in 1..Len(table) :
                        (\E s \in Elements(table[t].steps) :
                            L2[k].name \in NamesLookedFor(s))
                        => table[t].name \notin onRest

\* a directory with the entries of two signatures: on the sub-listing
\* without one entry one signature is matched, and with that entry added
\* both are; the entry is one whose name a step of the second requires
C21_Witness ==
    \E f \in Frames :
        \E k \in 1..Len(f.dirents) :
            LET rest == processDirents(f.depth, f.filename,
                                       Without(f.dirents, k))
                            .directoryInfo.answers
            IN  /\ Len(rest) = 1
                /\ Len(f.directoryInfo.answers) = 2
                /\ Elements(rest) \subseteq Elements(f.directoryInfo.answers)
                /\ \E t \in 1..Len(table) :
                    /\ table[t].name \in Elements(f.directoryInfo.answers)
                    /\ table[t].name \notin Elements(rest)
                    /\ \E s \in Elements(table[t].steps) :
                        /\ s.check = "includesAll"
                        /\ f.dirents[k].name \in Elements(s.needles)

\* ---- the configuration

\* C22: MAXDEPTH, VERBOSE and FOLLOWDOT are written by processCommandline
\* and by nothing after it: before it has run no root has been processed
\* (main's index is 0, no call is in progress, there are no results), no
\* later step changes any of the three, and their values are those the
\* whole argument list gives, options after a root included, so that a root
\* followed by -m=0 is explored to depth 0: its loop has skipped the
\* subdirectory and received no child result
C22_ConfigurationImmutable ==
    /\ [][pc # "start" => UNCHANGED << MAXDEPTH, VERBOSE, FOLLOWDOT >>]_vars
    /\ [](pc = "start" => mi = 0 /\ stack = <<>> /\ results = <<>>)
    /\ [](pc # "start" =>
            LET Depths == { << S("-m=0"), 0 >>, << S("-m=2"), 2 >>,
                            << S("-m=-1"), -1 >> }
                given  == { i \in 3..Len(argv) :
                                \E d \in Depths : d[1] = argv[i] }
                last   == CHOOSE i \in given : \A j \in given : j <= i
                depth  == IF given = {} THEN 1
                          ELSE (CHOOSE d \in Depths : d[1] = argv[last])[2]
            IN  /\ MAXDEPTH = depth
                /\ VERBOSE = (\E i \in 3..Len(argv) : argv[i] = S("-v"))
                /\ FOLLOWDOT = (\E i \in 3..Len(argv) : argv[i] = S("-d"))
                /\ \A f \in Frames :
                    f.depth = 0 /\ Len(f.whichDirectories) = 1 /\ LoopEnded(f)
                    => (depth > 0 <=> Len(f.directoryInfo.directoryInfos) = 1))

\* on "m=3 -m=0 -d" the root m=3, a directory with the subdirectory sub, is
\* explored with the depth and the option given after it: its loop has
\* ended without a child result
C22_Witness ==
    /\ argv = << Node, Script, S("m=3"), S("-m=0"), S("-d") >>
    /\ MAXDEPTH = 0
    /\ FOLLOWDOT
    /\ mi = 0
    /\ \E f \in Frames :
        /\ f.depth = 0
        /\ f.filename = << S("m=3") >>
        /\ f.whichDirectories = << S("sub") >>
        /\ LoopEnded(f)
        /\ f.directoryInfo.directoryInfos = <<>>

\* ---- the extension tables

MaxTableEntries == 3

\* the listings of the extension-table specification: up to MaxTableEntries
\* entries; under each of three names whose extensions differ in case only,
\* a name with no "." and a dot-name with an extension, a file whose lstat
\* succeeds or fails, a directory or a symbolic link
NextTables ==
    NextDir(ListingsOf({ RawDirent(n, k[1], k[2], 1) :
                           n \in { S("a.JPG"), S("b.jpg"), S("c.JPG"),
                                   S("Makefile"), S(".x.jpg") },
                           k \in { << "file", "ok" >>, << "file", "ENOENT" >>,
                                   << "dir", "ok" >>, << "symlink", "ok" >> } },
                       MaxTableEntries), FALSE)

SpecTables == InitDir /\ [][NextTables]_vars

\* C23: the keys of a directory's file-extension table are the lower-cased
\* extensions of its normal files whose name holds a ".", each once, with
\* the number of those files as count, so that the counts sum to the number
\* of such files (dot-files, directories, symbolic links, entries whose
\* lstat failed and files without "." add nothing); the keys of its
\* directory-extension table are the extensions of its directories with
\* extensions as they are spelt, .JPG and .jpg apart
C23_ExtensionTables ==
    \A f \in Frames :
        LET d     == f.dirents
            files == ExtensionFiles(d)
            dirs  == { k \in 1..Len(d) :
                         IsDir(d[k]) /\ IsExtensionName(d[k].name) }
            fobj  == f.fileextObj
            dobj  == f.dirextObj
        IN  /\ Elements(ObjectKeys(fobj)) = DistinctExts(d)
            /\ \A i, j \in 1..Len(fobj) : fobj[i].key = fobj[j].key => i = j
            /\ \A i \in 1..Len(fobj) :
                    /\ fobj[i].count = ExtCount(d, fobj[i].key)
                    /\ fobj[i].key = toLowerCase(fobj[i].key)
            /\ Cardinality({ p \in (1..Len(fobj)) \X (1..Len(d)) :
                                p[2] <= fobj[p[1]].count })
               = Cardinality(files)
            /\ Elements(ObjectKeys(dobj)) = { extname(d[k].name) : k \in dirs }
            /\ \A i, j \in 1..Len(dobj) : dobj[i].key = dobj[j].key => i = j
            /\ \A i \in 1..Len(dobj) :
                    dobj[i].count
                    = Cardinality({ k \in dirs :
                                      extname(d[k].name) = dobj[i].key })

\* a directory with the files a.JPG and b.jpg and the directory c.JPG: the
\* file table counts 2 under .jpg, the directory table 1 under .JPG
C23_Witness ==
    \E f \in Frames :
        /\ Len(f.dirents) = 3
        /\ \E i, j, k \in 1..3 :
            /\ f.dirents[i].name = S("a.JPG") /\ IsNormalFile(f.dirents[i])
            /\ f.dirents[j].name = S("b.jpg") /\ IsNormalFile(f.dirents[j])
            /\ f.dirents[k].name = S("c.JPG") /\ IsDir(f.dirents[k])
        /\ f.fileextObj = << [key |-> S(".jpg"), count |-> 2] >>
        /\ f.dirextObj = << [key |-> S(".JPG"), count |-> 1] >>

\* ---- what is printed

\* C24 as stated: for the result of every directory, whether or not it has
\* child results, printResults prints each of its answers and its collection
\* description, and prints "empty" only when the directory's listing had no
\* entries
C24_AsStated ==
    \A f \in Frames :
        LoopEnded(f) =>
            LET printed == PrintedForDirectory(f.directoryInfo)
            IN  /\ printed.answers = f.directoryInfo.answers
                /\ printed.collections = f.directoryInfo.collections
                /\ printed.empty => Len(f.dirents) = 0

\* a directory that holds go.mod returns a result with the answer "Go
\* module" and no child results, for which printResults prints "empty" and
\* no answer
C24_Witness ==
    \E f \in Frames :
        /\ LoopEnded(f)
        /\ \E k \in 1..Len(f.dirents) :
            f.dirents[k].name = S("go.mod") /\ IsNormalFile(f.dirents[k])
        /\ f.directoryInfo.answers = << "Go module" >>
        /\ f.directoryInfo.identified
        /\ f.directoryInfo.directoryInfos = <<>>
        /\ PrintedForDirectory(f.directoryInfo).empty
        /\ PrintedForDirectory(f.directoryInfo).answers = <<>>

====
